---- MODULE Spec2Model ----
(***************************************************************************)
(* VoiceFlow dictation core: the hotkey listener (app/input/hotkey.py),    *)
(* the coordinator's recording lifecycle and pipeline worker               *)
(* (app/main.py), the hallucination filter of the transcription pipeline   *)
(* (app/transcription/__init__.py) and the clipboard paste engine          *)
(* (app/input/text_inserter.py).                                           *)
(*                                                                         *)
(* Threads: the main thread runs the hotkey handlers and, synchronously,   *)
(* the coordinator callbacks; each accepted recording spawns one worker    *)
(* thread; each long paste starts one restore timer thread; the user (or   *)
(* any other application) may write the clipboard at any moment.           *)
(* Time is the monotonic clock in milliseconds.  The model covers the      *)
(* running application, from construction up to shutdown.                  *)
(***************************************************************************)
EXTENDS Integers, Sequences, FiniteSets, TLC

\* ------------------------------------------------------------------ bounds
\* audible recordings the user makes in one run
MaxDictations == 2
\* the clock advances in steps of TickMs up to MaxTimeMs, from StartMs
TickMs == 100
StartMs == 1000
MaxTimeMs == 1400

\* ------------------------------------------------------- program constants
MIN_AUDIO_SAMPLES == 4800
\* 0.003, in units of 1e-4
MIN_RMS_E4 == 30
min_hold_ms == 200
double_press_window_ms == 300
ASYNC_RESTORE_CHARS == 420

\* ------------------------------------------------------------------- texts
\* A transcript is a sequence of one-character strings.
S_ThankYouDot == <<" ", "T", "h", "a", "n", "k", " ", "Y", "o", "u", ".", " ">>
S_YOU == <<"Y", "O", "U", "\n">>
S_dots == <<".", ".", ".">>
S_thankYouAll == <<"t", "h", "a", "n", "k", " ", "y", "o", "u", " ", "a", "l", "l">>
S_blank == <<" ">>

RawTranscripts == {S_ThankYouDot, S_YOU, S_dots, S_thankYouAll, S_blank}

Whitespace == {" ", "\n", "\t"}

UpperCase == <<"A", "B", "C", "D", "E", "F", "G", "H", "I", "J", "K", "L", "M",
               "N", "O", "P", "Q", "R", "S", "T", "U", "V", "W", "X", "Y", "Z">>
LowerCase == <<"a", "b", "c", "d", "e", "f", "g", "h", "i", "j", "k", "l", "m",
               "n", "o", "p", "q", "r", "s", "t", "u", "v", "w", "x", "y", "z">>

LowerChar(c) ==
    IF \E i \in 1..Len(UpperCase) : UpperCase[i] = c
    THEN LowerCase[CHOOSE i \in 1..Len(UpperCase) : UpperCase[i] = c]
    ELSE c

Lower(s) == [i \in 1..Len(s) |-> LowerChar(s[i])]

RECURSIVE StripLeft(_)
StripLeft(s) ==
    IF s # <<>> /\ Head(s) \in Whitespace THEN StripLeft(Tail(s)) ELSE s

RECURSIVE StripRight(_)
StripRight(s) ==
    IF s # <<>> /\ s[Len(s)] \in Whitespace
    THEN StripRight(SubSeq(s, 1, Len(s) - 1))
    ELSE s

\* str.strip()
Strip(s) == StripRight(StripLeft(s))

\* re.compile(r"^<lit>\.?$", re.IGNORECASE).match(s)
MatchesLiteralOptDot(s, lit) ==
    \/ Lower(s) = lit
    \/ Lower(s) = lit \o <<".">>

\* re.compile(r"^<c>+$").match(s)
MatchesRun(s, c) == s # <<>> /\ \A i \in 1..Len(s) : s[i] = c

L_thank_you == <<"t", "h", "a", "n", "k", " ", "y", "o", "u">>
L_thanks == <<"t", "h", "a", "n", "k", "s">>
L_thanks_for_watching ==
    <<"t", "h", "a", "n", "k", "s", " ", "f", "o", "r", " ",
      "w", "a", "t", "c", "h", "i", "n", "g">>
L_you == <<"y", "o", "u">>

\* any(pat.match(raw_stripped) for pat in _HALLUCINATION_PATTERNS)
MatchesHallucination_CaseSensitive(raw_stripped) ==
    \/ raw_stripped \in {L_thank_you, L_thank_you \o <<".">>}
    \/ raw_stripped \in {L_thanks, L_thanks \o <<".">>}
    \/ raw_stripped \in {L_thanks_for_watching, L_thanks_for_watching \o <<".">>}
    \/ raw_stripped = L_you
    \/ MatchesRun(raw_stripped, ".")
    \/ MatchesRun(raw_stripped, ",")

MatchesHallucination(raw_stripped) ==
    \/ MatchesLiteralOptDot(raw_stripped, L_thank_you)
    \/ MatchesLiteralOptDot(raw_stripped, L_thanks)
    \/ MatchesLiteralOptDot(raw_stripped, L_thanks_for_watching)
    \/ Lower(raw_stripped) = L_you
    \/ MatchesRun(raw_stripped, ".")
    \/ MatchesRun(raw_stripped, ",")

\* Final texts that reach the inserter are named; only their length and
\* identity matter to the paste engine.
Texts == {"a", "b"}
TextLen(t) == IF t = "a" THEN ASYNC_RESTORE_CHARS - 1 ELSE ASYNC_RESTORE_CHARS
EmptyText == ""
\* NSPasteboard.stringForType_ returns None for a pasteboard without a string
None == "<none>"
\* "o" is on the clipboard at launch; the user may copy "x" or a non-text item
UserClips == {"x", None}
ClipValues == Texts \cup UserClips \cup {"o"}

\* What TranscriptionPipeline.process can return for a raw transcript: the
\* filters decide the empty result; cleaning, refinement and finalization
\* of any other transcript yield some text, possibly empty.
ProcessResults(raw) ==
    IF MatchesHallucination(Strip(raw)) THEN {EmptyText}
    ELSE IF Strip(raw) = <<>> THEN {EmptyText}
    ELSE Texts \cup {EmptyText}

\* waveforms returned by AudioCapture.stop: sample count and overall RMS
Waveforms ==
    [size : {MIN_AUDIO_SAMPLES - 1, MIN_AUDIO_SAMPLES},
     rms : {MIN_RMS_E4 - 1, MIN_RMS_E4}]


\* ------------------------------------------------------------------- state
Workers == 1..MaxDictations

VARIABLES
    \* HotkeyListener
    mode, key_held, press_time, recording, last_press_time, toggle_armed,
    \* time.monotonic(), in ms
    now,
    \* VoiceFlowApplication
    processing, stream_active, restore_clipboard, spawned,
    \* worker threads (one per spawned _process_audio) and restore timers
    worker, timer,
    \* TextInserter and the system pasteboard
    clipboard, restore_generation, last_error,
    \* who wrote the pasteboard last, and the kind of the last callback the
    \* listener emitted
    clip_src, last_cb,
    \* what the latest step did: the key event the listener handled, the
    \* callback it emitted, the recording the coordinator stopped, the
    \* pipeline run that returned, the paste keystroke or restore write
    \* performed
    key_event, cb_event, stop_event, proc_event, clip_event,
    \* a call of one function of the pipeline taken on its own: its name and
    \* arguments, and what it returned
    fn_args, fn_ret,
    \* AudioCapture taken on its own: its queue and stream, the thread
    \* inside stop, and the blocks the callback has enqueued
    capture,
    \* TranscriptionPipeline's speech-to-text engines taken on their own: the
    \* configuration, the active engine and the fallback loop
    stt,
    \* AudioCapture._collect_trailing_chunks taken on its own: the clock, the
    \* thread inside the loop and the blocks the callback enqueues meanwhile
    trailing,
    \* VoiceActivityDetector taken on its own: its buffers and counter, and
    \* the chunks it has been fed
    vad

hkVars == <<mode, key_held, press_time, recording, last_press_time, toggle_armed>>
coVars == <<processing, stream_active, restore_clipboard, spawned>>
tiVars == <<clipboard, restore_generation, last_error, clip_src>>
evVars == <<key_event, cb_event, stop_event, proc_event, clip_event>>
appVars == <<hkVars, now, coVars, worker, timer, tiVars, last_cb, evVars>>
fnVars == <<fn_args, fn_ret>>
smVars == <<capture, stt, trailing, vad>>
\* what the application's steps leave alone
unitVars == <<fnVars, smVars>>
vars == <<appVars, unitVars>>
\* no function is being called on its own
NoCall == [fn |-> "none"]

ByUser == [kind |-> "user", call |-> 0]
NoCallback == [kind |-> "none", cancelled |-> FALSE]
NoStop == [kind |-> "none", cancelled |-> FALSE, size |-> 0, rms |-> 0]
\* ui tells how the status and overlay updates of the step went, which run
\* on the main thread inside try/except
NoProcess ==
    [kind |-> "none", call |-> 0, raw |-> <<>>, result |-> EmptyText,
     ui |-> "none"]
NoClip ==
    [kind |-> "none", call |-> 0, text |-> None, before |-> None,
     src |-> ByUser, token |-> 0, generation |-> 0]

\* the locals of insert (0 stands for a token of None)
NoLocals == [pc |-> "unborn", result |-> EmptyText, original |-> None, token |-> 0]
Finished == [NoLocals EXCEPT !.pc = "done"]
\* the arguments a restore timer was started with
NoTimer == [pc |-> "off", token |-> 0, text |-> None, original |-> None]

AppInit ==
    /\ mode \in {"push_to_talk", "toggle"}
    /\ key_held = FALSE
    /\ press_time = 0
    /\ recording = FALSE
    /\ last_press_time = 0
    /\ toggle_armed = FALSE
    /\ now = StartMs
    /\ processing = FALSE
    /\ stream_active = FALSE
    /\ restore_clipboard \in BOOLEAN
    /\ spawned = 0
    /\ worker = [w \in Workers |-> NoLocals]
    /\ timer = [w \in Workers |-> NoTimer]
    /\ clipboard = "o"
    /\ restore_generation = 0
    /\ last_error = None
    /\ clip_src = ByUser
    /\ last_cb = "none"
    /\ key_event = "none"
    /\ cb_event = NoCallback
    /\ stop_event = NoStop
    /\ proc_event = NoProcess
    /\ clip_event = NoClip

\* AudioCapture.__init__: an empty queue and no stream
CaptureInit ==
    [stream |-> "none", open |-> 0, queue |-> <<>>, pc |-> "idle",
     chunks |-> <<>>, waveform |-> <<>>, sent |-> <<>>, blocks |-> 0,
     recordings |-> 0]

\* TranscriptionPipeline.__init__ with the default cleanup mode: the active
\* engine is the one of config.stt_model
SttIdle ==
    [stt_model |-> "primary", max_accuracy_stt_model |-> "max",
     cleanup_mode |-> "standard", cached |-> {},
     active |-> [model_name |-> "primary", id |-> 0], engines |-> 1,
     pc |-> "idle", call |-> "none", candidates |-> <<>>, index |-> 0,
     tried |-> <<>>, constructed |-> <<>>, errors |-> <<>>,
     kinds |-> <<>>, error |-> [summary |-> <<>>, cause |-> <<>>],
     before |-> [model_name |-> "primary", id |-> 0], calls |-> 0]

\* no stop is inside _collect_trailing_chunks
TrailingIdle ==
    [pc |-> "idle", clock |-> 0, now |-> 0, wait_until |-> 0, deadline |-> 0,
     floor |-> 0, quiet_blocks |-> 0, chunks |-> <<>>, queue |-> <<>>,
     arrived |-> <<>>, reason |-> "none"]

\* the length of one chunk fed to the detector, in ms
chunk_ms == 32

\* VoiceActivityDetector.__init__: the limits in chunks, empty buffers and
\* counter 0.  A chunk is named by its position in the stream; fed holds,
\* for each chunk fed, whether the model found speech in it, returned what
\* the latest process_chunk returned (<<>> for None), emitted the
\* utterances returned so far and since the position of the latest reset.
VadNew(silence_duration_ms, pre_buffer_ms) ==
    [silence_limit |-> silence_duration_ms \div chunk_ms,
     pre_buffer_chunks |-> pre_buffer_ms \div chunk_ms,
     pre_buffer |-> <<>>, speech_chunks |-> <<>>, silence_counter |-> 0,
     fed |-> <<>>, returned |-> <<>>, emitted |-> <<>>, since |-> 0]

\* the detector with the defaults of its constructor
VadIdle == VadNew(700, 300)

\* the units with a state of their own, at rest
MachinesIdle ==
    /\ capture = CaptureInit
    /\ stt = SttIdle
    /\ trailing = TrailingIdle
    /\ vad = VadIdle

Init ==
    /\ AppInit
    /\ fn_args = NoCall
    /\ fn_ret = NoCall
    /\ MachinesIdle

\* the application at rest, while one of its units is taken on its own
AppIdle ==
    /\ AppInit
    /\ mode = "push_to_talk"
    /\ restore_clipboard = TRUE

\* ------------------------------------------------------------- coordinator
\* _on_recording_start: "if self._processing: return"
StartIsDropped_NoGuard == FALSE

StartIsDropped == processing

\* _on_recording_start; audio.drain() and audio.start(), which may fail to
\* open the microphone.
OnRecordingStart ==
    /\ IF StartIsDropped
       THEN UNCHANGED stream_active
       ELSE \E opened \in BOOLEAN : stream_active' = opened
    /\ stop_event' = NoStop
    /\ UNCHANGED <<processing, worker, spawned>>

\* _on_recording_stop: "audio.size < _MIN_AUDIO_SAMPLES" / "rms < 0.003"
IsDiscarded_NoSilenceGuard(a) == a.size < MIN_AUDIO_SAMPLES

IsDiscarded(a) == a.size < MIN_AUDIO_SAMPLES \/ a.rms < MIN_RMS_E4

\* _on_recording_stop(cancelled): audio.stop() closes the stream and returns
\* the waveform; a kept waveform sets the flag and spawns the worker thread.
OnRecordingStop_SpawnsWhileRecording(cancelled) ==
    IF ~stream_active
    THEN /\ stop_event' = NoStop
         /\ UNCHANGED <<processing, stream_active, worker, spawned>>
    ELSE \E a \in Waveforms :
           /\ IsDiscarded(a) \/ spawned < MaxDictations
           /\ stop_event' = [kind |-> "stop", cancelled |-> cancelled,
                             size |-> a.size, rms |-> a.rms]
           /\ IF cancelled \/ IsDiscarded(a)
              THEN /\ stream_active' = FALSE
                   /\ UNCHANGED <<processing, worker, spawned>>
              ELSE /\ processing' = TRUE
                   /\ spawned' = spawned + 1
                   /\ worker' = [worker EXCEPT ![spawned + 1].pc = "pipeline"]
                   /\ UNCHANGED stream_active

OnRecordingStop(cancelled) ==
    IF ~stream_active
    THEN /\ stop_event' = NoStop
         /\ UNCHANGED <<processing, stream_active, worker, spawned>>
    ELSE \E a \in Waveforms :
           /\ IsDiscarded(a) \/ spawned < MaxDictations
           /\ stream_active' = FALSE
           /\ stop_event' = [kind |-> "stop", cancelled |-> cancelled,
                             size |-> a.size, rms |-> a.rms]
           /\ IF cancelled \/ IsDiscarded(a)
              THEN UNCHANGED <<processing, worker, spawned>>
              ELSE /\ processing' = TRUE
                   /\ spawned' = spawned + 1
                   /\ worker' = [worker EXCEPT ![spawned + 1].pc = "pipeline"]

EmitStart ==
    /\ cb_event' = [kind |-> "start", cancelled |-> FALSE]
    /\ last_cb' = "start"
    /\ OnRecordingStart

EmitStop(cancelled) ==
    /\ cb_event' = [kind |-> "stop", cancelled |-> cancelled]
    /\ last_cb' = "stop"
    /\ OnRecordingStop(cancelled)

NoEmit ==
    /\ cb_event' = NoCallback
    /\ stop_event' = NoStop
    /\ UNCHANGED <<last_cb, processing, stream_active, worker, spawned>>

\* a step of a worker, a timer, the clock or the user emits no callback and
\* stops no recording
NoHotkeyEvent ==
    /\ key_event' = "none"
    /\ cb_event' = NoCallback
    /\ stop_event' = NoStop
    /\ UNCHANGED last_cb

\* ------------------------------------------------------------------ hotkey
\* _handle_push_to_talk_release: "hold_duration_ms < self._min_hold_ms"
HoldTooShort_Inclusive(hold_ms) == hold_ms <= min_hold_ms

HoldTooShort(hold_ms) == hold_ms < min_hold_ms

\* _handle_push_to_talk_press: "if self._key_held: return"
IsKeyRepeat_Never == FALSE

IsKeyRepeat == key_held

\* _handle_event, push_to_talk, key down
PushToTalkPress ==
    /\ mode = "push_to_talk"
    /\ key_event' = "press"
    /\ IF IsKeyRepeat
       THEN UNCHANGED <<key_held, press_time, recording>> /\ NoEmit
       ELSE /\ key_held' = TRUE
            /\ press_time' = now
            /\ EmitStart
            /\ recording' = TRUE
    /\ proc_event' = NoProcess /\ clip_event' = NoClip
    /\ UNCHANGED <<unitVars, mode, last_press_time, toggle_armed, now, restore_clipboard,
                   timer, tiVars>>

\* _handle_event, push_to_talk, key up
PushToTalkRelease ==
    /\ mode = "push_to_talk"
    /\ key_event' = "release"
    /\ IF ~key_held
       THEN UNCHANGED <<key_held, recording>> /\ NoEmit
       ELSE /\ key_held' = FALSE
            /\ recording' = FALSE
            /\ IF ~recording
               THEN NoEmit
               ELSE EmitStop(HoldTooShort(now - press_time))
    /\ proc_event' = NoProcess /\ clip_event' = NoClip
    /\ UNCHANGED <<unitVars, mode, press_time, last_press_time, toggle_armed, now,
                   restore_clipboard, timer, tiVars>>

\* _handle_toggle_press: "elapsed_ms > self._double_press_window_ms"
OutsideWindow_NoDecay(elapsed_ms) ==
    elapsed_ms > double_press_window_ms /\ ~toggle_armed

OutsideWindow(elapsed_ms) == elapsed_ms > double_press_window_ms

\* _handle_event, toggle mode, key down (key up is ignored in this mode)
TogglePress ==
    /\ mode = "toggle"
    /\ key_event' = "press"
    /\ last_press_time' = now
    /\ IF OutsideWindow(now - last_press_time)
       THEN toggle_armed' = TRUE /\ UNCHANGED recording /\ NoEmit
       ELSE IF ~toggle_armed
       THEN UNCHANGED <<toggle_armed, recording>> /\ NoEmit
       ELSE /\ toggle_armed' = FALSE
            /\ recording' = ~recording
            /\ IF ~recording THEN EmitStart ELSE EmitStop(FALSE)
    /\ proc_event' = NoProcess /\ clip_event' = NoClip
    /\ UNCHANGED <<unitVars, mode, key_held, press_time, now, restore_clipboard,
                   timer, tiVars>>

\* the monotonic clock advances
Tick ==
    /\ now < MaxTimeMs
    /\ now' = now + TickMs
    /\ NoHotkeyEvent /\ proc_event' = NoProcess /\ clip_event' = NoClip
    /\ UNCHANGED <<unitVars, hkVars, coVars, worker, timer, tiVars>>

\* ------------------------------------------------------------------ worker
AX_REQUIRED == "Accessibility permission required for paste."
PASTE_FAILED == "Failed to create CGEvent source"

\* _show_error, _set_tray_title, _set_status and overlay.hide hand their
\* update to the main thread, where _MainThreadInvoker._execute and
\* _run_on_main_thread catch what it raises: the update succeeds or fails,
\* and the worker goes on
UiOutcomes == {"ok", "failed"}

\* _process_audio, up to the call of TextInserter.insert: pipeline.process
\* raises or returns empty (the status is updated, the flag is released,
\* nothing is pasted), or it returns the text; the target application is
\* then reactivated and insert is entered ("TextInserter.last_error = None").
WorkerPipeline_ReleasesEarly(w) ==
    /\ worker[w].pc = "pipeline"
    /\ \E raw \in RawTranscripts, raised \in BOOLEAN, ui \in UiOutcomes :
         IF raised
         THEN /\ processing' = FALSE
              /\ worker' = [worker EXCEPT ![w] = Finished]
              /\ proc_event' = [kind |-> "raised", call |-> w, raw |-> <<>>,
                                result |-> EmptyText, ui |-> ui]
              /\ UNCHANGED last_error
         ELSE \E result \in ProcessResults(raw) :
              /\ proc_event' = [kind |-> "returned", call |-> w, raw |-> raw,
                                result |-> result,
                                ui |-> IF result = EmptyText THEN ui
                                       ELSE "none"]
              /\ processing' = FALSE
              /\ IF result = EmptyText
                 THEN /\ worker' = [worker EXCEPT ![w] = Finished]
                      /\ UNCHANGED last_error
                 ELSE /\ worker' = [worker EXCEPT ![w].pc = "ins_save",
                                                  ![w].result = result]
                      /\ last_error' = None
    /\ NoHotkeyEvent /\ clip_event' = NoClip
    /\ UNCHANGED <<unitVars, hkVars, now, stream_active, restore_clipboard, spawned,
                   timer, clipboard, restore_generation, clip_src>>

WorkerPipeline(w) ==
    /\ worker[w].pc = "pipeline"
    /\ \E raw \in RawTranscripts, raised \in BOOLEAN, ui \in UiOutcomes :
         IF raised
         THEN /\ processing' = FALSE
              /\ worker' = [worker EXCEPT ![w] = Finished]
              /\ proc_event' = [kind |-> "raised", call |-> w, raw |-> <<>>,
                                result |-> EmptyText, ui |-> ui]
              /\ UNCHANGED last_error
         ELSE \E result \in ProcessResults(raw) :
              /\ proc_event' = [kind |-> "returned", call |-> w, raw |-> raw,
                                result |-> result,
                                ui |-> IF result = EmptyText THEN ui
                                       ELSE "none"]
              /\ IF result = EmptyText
                 THEN /\ processing' = FALSE
                      /\ worker' = [worker EXCEPT ![w] = Finished]
                      /\ UNCHANGED last_error
                 ELSE /\ worker' = [worker EXCEPT ![w].pc = "ins_save",
                                                  ![w].result = result]
                      /\ last_error' = None
                      /\ UNCHANGED processing
    /\ NoHotkeyEvent /\ clip_event' = NoClip
    /\ UNCHANGED <<unitVars, hkVars, now, stream_active, restore_clipboard, spawned,
                   timer, clipboard, restore_generation, clip_src>>

\* a step that neither pastes nor restores, runs no pipeline, emits nothing
Silent == NoHotkeyEvent /\ proc_event' = NoProcess /\ clip_event' = NoClip

\* ------------------------------------------------------------ TextInserter
\* insert: "original = TextInserter._get_clipboard()" when restore_clipboard
InsertSave(w) ==
    /\ worker[w].pc = "ins_save"
    /\ IF restore_clipboard
       THEN worker' = [worker EXCEPT ![w].pc = "ins_gen",
                                     ![w].original = clipboard]
       ELSE worker' = [worker EXCEPT ![w].pc = "ins_set"]
    /\ Silent
    /\ UNCHANGED <<unitVars, hkVars, now, coVars, timer, tiVars>>

\* insert: the generation is incremented and taken as token, under the lock
InsertGeneration(w) ==
    /\ worker[w].pc = "ins_gen"
    /\ restore_generation' = restore_generation + 1
    /\ worker' = [worker EXCEPT ![w].pc = "ins_set",
                                ![w].token = restore_generation + 1]
    /\ Silent
    /\ UNCHANGED <<unitVars, hkVars, now, coVars, timer, clipboard, last_error, clip_src>>

\* insert: "_set_clipboard(text)", then the settle sleep
InsertSetClipboard(w) ==
    /\ worker[w].pc = "ins_set"
    /\ clipboard' = worker[w].result
    /\ clip_src' = [kind |-> "insert", call |-> w]
    /\ worker' = [worker EXCEPT ![w].pc = "ins_paste"]
    /\ Silent
    /\ UNCHANGED <<unitVars, hkVars, now, coVars, timer, restore_generation, last_error>>

\* insert: the accessibility check and "_simulate_paste()", which posts
\* Cmd+V or raises; then the paste sleep
InsertPaste(w) ==
    /\ worker[w].pc = "ins_paste"
    /\ \E trusted \in BOOLEAN, posted \in BOOLEAN :
         IF ~trusted
         THEN /\ last_error' = AX_REQUIRED
              /\ worker' = [worker EXCEPT ![w].pc = "release"]
              /\ clip_event' = NoClip
         ELSE IF ~posted
         THEN /\ worker' = [worker EXCEPT ![w].pc = "ins_except"]
              /\ clip_event' = NoClip
              /\ UNCHANGED last_error
         ELSE /\ clip_event' = [NoClip EXCEPT !.kind = "paste", !.call = w,
                                              !.text = worker[w].result,
                                              !.before = clipboard,
                                              !.src = clip_src]
              /\ worker' = [worker EXCEPT ![w].pc = "ins_restore"]
              /\ UNCHANGED last_error
    /\ NoHotkeyEvent /\ proc_event' = NoProcess
    /\ UNCHANGED <<unitVars, hkVars, now, coVars, timer, clipboard, restore_generation,
                   clip_src>>

\* insert: the except branch keeps the text on the clipboard
InsertExcept(w) ==
    /\ worker[w].pc = "ins_except"
    /\ last_error' = PASTE_FAILED
    /\ clipboard' = worker[w].result
    /\ clip_src' = [kind |-> "insert", call |-> w]
    /\ worker' = [worker EXCEPT ![w].pc = "release"]
    /\ Silent
    /\ UNCHANGED <<unitVars, hkVars, now, coVars, timer, restore_generation>>

\* insert: "len(text) >= TextInserter._ASYNC_RESTORE_CHARS"
RestoresAsync_Never(text) == FALSE

RestoresAsync(text) == TextLen(text) >= ASYNC_RESTORE_CHARS

\* insert: after the paste sleep, start the restore timer for a long text or
\* go into the restore sleep for a short one
InsertRestoreChoice(w) ==
    /\ worker[w].pc = "ins_restore"
    /\ IF restore_clipboard /\ worker[w].original # None /\ worker[w].token # 0
       THEN IF RestoresAsync(worker[w].result)
            THEN /\ timer' = [timer EXCEPT ![w] =
                                [pc |-> "armed", token |-> worker[w].token,
                                 text |-> worker[w].result,
                                 original |-> worker[w].original]]
                 /\ worker' = [worker EXCEPT ![w].pc = "release"]
            ELSE /\ worker' = [worker EXCEPT ![w].pc = "ins_sync"]
                 /\ UNCHANGED timer
       ELSE /\ worker' = [worker EXCEPT ![w].pc = "release"]
            /\ UNCHANGED timer
    /\ Silent
    /\ UNCHANGED <<unitVars, hkVars, now, coVars, tiVars>>

\* a restore write of "original" over the clipboard
RestoreWrite(w, token, text, original) ==
    /\ clip_event' = [NoClip EXCEPT !.kind = "restore", !.call = w,
                                    !.text = text, !.before = clipboard,
                                    !.src = clip_src, !.token = token,
                                    !.generation = restore_generation]
    /\ clipboard' = original
    /\ clip_src' = [kind |-> "restore", call |-> w]

\* insert: "_set_clipboard(original)" after the restore sleep
InsertSyncRestore(w) ==
    /\ worker[w].pc = "ins_sync"
    /\ RestoreWrite(w, worker[w].token, worker[w].result, worker[w].original)
    /\ worker' = [worker EXCEPT ![w].pc = "release"]
    /\ NoHotkeyEvent /\ proc_event' = NoProcess
    /\ UNCHANGED <<unitVars, hkVars, now, coVars, timer, restore_generation, last_error>>

\* _process_audio after insert returned: the flag is released, then the
\* outcome is reported to the user interface
WorkerRelease_KeepsFlag(w) ==
    /\ worker[w].pc = "release"
    /\ UNCHANGED processing
    /\ worker' = [worker EXCEPT ![w] = Finished]
    /\ Silent
    /\ UNCHANGED <<unitVars, hkVars, now, stream_active, restore_clipboard, spawned,
                   timer, tiVars>>

WorkerRelease(w) ==
    /\ worker[w].pc = "release"
    /\ processing' = FALSE
    /\ worker' = [worker EXCEPT ![w] = Finished]
    /\ Silent
    /\ UNCHANGED <<unitVars, hkVars, now, stream_active, restore_clipboard, spawned,
                   timer, tiVars>>

TimerDone == [NoTimer EXCEPT !.pc = "done"]

\* _restore_clipboard_if_safe: "if token != cls._restore_generation: return"
TimerCheckToken(w) ==
    /\ timer[w].pc = "armed"
    /\ timer' = [timer EXCEPT ![w] =
                   IF timer[w].token # restore_generation
                   THEN TimerDone
                   ELSE [timer[w] EXCEPT !.pc = "checked"]]
    /\ Silent
    /\ UNCHANGED <<unitVars, hkVars, now, coVars, worker, tiVars>>

\* _restore_clipboard_if_safe: "if current != inserted_text: return"
TimerCheckClipboard(w) ==
    /\ timer[w].pc = "checked"
    /\ timer' = [timer EXCEPT ![w] =
                   IF clipboard # timer[w].text
                   THEN TimerDone
                   ELSE [timer[w] EXCEPT !.pc = "safe"]]
    /\ Silent
    /\ UNCHANGED <<unitVars, hkVars, now, coVars, worker, tiVars>>

\* _restore_clipboard_if_safe: "cls._set_clipboard(original_text)"
TimerRestore(w) ==
    /\ timer[w].pc = "safe"
    /\ RestoreWrite(w, timer[w].token, timer[w].text, timer[w].original)
    /\ timer' = [timer EXCEPT ![w] = TimerDone]
    /\ NoHotkeyEvent /\ proc_event' = NoProcess
    /\ UNCHANGED <<unitVars, hkVars, now, coVars, worker, restore_generation, last_error>>

\* the user, or another application, copies something
ExternalClipboardWrite ==
    /\ \E v \in UserClips :
         /\ v # clipboard
         /\ clipboard' = v
    /\ clip_src' = ByUser
    /\ Silent
    /\ UNCHANGED <<unitVars, hkVars, now, coVars, worker, timer, restore_generation,
                   last_error>>

Next ==
    \/ PushToTalkPress
    \/ PushToTalkRelease
    \/ TogglePress
    \/ Tick
    \/ ExternalClipboardWrite
    \/ \E w \in Workers : WorkerPipeline(w)
    \/ \E w \in Workers : InsertSave(w)
    \/ \E w \in Workers : InsertGeneration(w)
    \/ \E w \in Workers : InsertSetClipboard(w)
    \/ \E w \in Workers : InsertPaste(w)
    \/ \E w \in Workers : InsertExcept(w)
    \/ \E w \in Workers : InsertRestoreChoice(w)
    \/ \E w \in Workers : InsertSyncRestore(w)
    \/ \E w \in Workers : WorkerRelease(w)
    \/ \E w \in Workers : TimerCheckToken(w)
    \/ \E w \in Workers : TimerCheckClipboard(w)
    \/ \E w \in Workers : TimerRestore(w)

Spec == Init /\ [][Next]_vars

TypeOK ==
    /\ mode \in {"push_to_talk", "toggle"}
    /\ key_held \in BOOLEAN /\ recording \in BOOLEAN /\ toggle_armed \in BOOLEAN
    /\ processing \in BOOLEAN /\ stream_active \in BOOLEAN
    /\ clipboard \in ClipValues
    /\ restore_generation \in 0..MaxDictations
    /\ spawned \in 0..MaxDictations
    /\ \A w \in Workers : timer[w].pc \in {"off", "armed", "checked", "safe", "done"}

\* ------------------------------------------------------------------ claims
InsertPcs == {"ins_save", "ins_gen", "ins_set", "ins_paste", "ins_except",
              "ins_restore", "ins_sync"}
AfterWritePcs == {"ins_paste", "ins_except", "ins_restore", "ins_sync"}
BusyPcs == {"pipeline", "release"} \cup InsertPcs

\* C1: no restore write, synchronous or by timer, happens while the
\* clipboard differs from the text the insert wrote.
C1_RestoreOnlyOverOwnText ==
    clip_event.kind = "restore" => clip_event.before = clip_event.text

\* C2: the steps of two inserts never interleave: no restore write of one
\* call lands between the clipboard write and the end of another call, and
\* every paste keystroke pastes the text its own call wrote (a copy by the
\* user aside).
C2_PasteIsSerialized ==
    /\ clip_event.kind = "restore" =>
         \A w \in Workers \ {clip_event.call} : worker[w].pc \notin AfterWritePcs
    /\ clip_event.kind = "paste" =>
         \/ clip_event.src = [kind |-> "insert", call |-> clip_event.call]
         \/ clip_event.src.kind = "user"

\* C3: every insert that saves the clipboard takes a fresh generation as its
\* token, and no restore write is made with a token older than the latest
\* generation.
C3_StaleRestoreIsNoOp ==
    /\ \A w \in Workers :
         (restore_clipboard /\ worker[w].pc \in InsertPcs \ {"ins_save", "ins_gen"})
           => worker[w].token = restore_generation
    /\ clip_event.kind = "restore" => clip_event.token = clip_event.generation

\* C4: at most one dictation is in its pipeline run or paste at a time; a
\* start callback that arrives while the processing flag is set opens no
\* stream, and a stream opens only in the step of a start callback that
\* arrives while the flag is clear (a dropped start is not replayed).
C4_OneDictationAtATime ==
    /\ [](Cardinality({w \in Workers : worker[w].pc \in BusyPcs}) <= 1)
    /\ [][(processing /\ cb_event'.kind = "start") => ~stream_active']_vars
    /\ [][(stream_active' /\ ~stream_active)
            => (cb_event'.kind = "start" /\ ~processing)]_vars

\* a start callback has just been dropped because a dictation is in progress
C4_Witness ==
    /\ cb_event.kind = "start"
    /\ processing
    /\ ~stream_active
    /\ \E w \in Workers : worker[w].pc \in BusyPcs

\* C5: from the spawn of a worker until its insert has returned the
\* processing flag is set and no audio stream is open.
C5_FlagHeldThroughPaste ==
    \A w \in Workers :
      worker[w].pc \in BusyPcs => (processing /\ ~stream_active)

\* a start callback has just arrived while a paste was awaiting its
\* synchronous restore
C5_Witness ==
    /\ cb_event.kind = "start"
    /\ \E w \in Workers : worker[w].pc = "ins_sync"
    /\ processing

\* C6: a worker is spawned only by a non-cancelled stop whose waveform has at
\* least 4800 samples and an RMS of at least 0.003; after a stop with a
\* shorter or quieter waveform no pipeline is waiting to run and the flag is
\* false.
C6_ShortOrQuietIsDropped ==
    /\ [][spawned' # spawned =>
            /\ stop_event'.kind = "stop"
            /\ ~stop_event'.cancelled
            /\ stop_event'.size >= 4800
            /\ stop_event'.rms >= 30]_vars
    /\ []((stop_event.kind = "stop" /\ ~stop_event.cancelled
             /\ (stop_event.size < 4800 \/ stop_event.rms < 30))
            => (~processing /\ \A w \in Workers : worker[w].pc # "pipeline"))

\* a recording of full length but below the RMS floor has just been dropped
C6_Witness ==
    /\ stop_event.kind = "stop"
    /\ ~stop_event.cancelled
    /\ stop_event.size = 4800
    /\ stop_event.rms = 29
    /\ ~processing

\* C7: in push-to-talk mode the release of the held key emits stop with
\* cancelled exactly when the hold lasted less than 200 ms; a cancelled stop
\* leaves the stream closed, spawns no worker and does not set the flag.
C7_ShortHoldCancels ==
    /\ [][(key_held /\ ~key_held') =>
            cb_event' = [kind |-> "stop",
                         cancelled |-> (now - press_time < 200)]]_vars
    /\ [][(cb_event'.kind = "stop" /\ cb_event'.cancelled) =>
            /\ ~stream_active'
            /\ spawned' = spawned
            /\ worker' = worker
            /\ processing' = processing
            /\ (stream_active => ~processing')]_vars

\* a short hold has just been cancelled and its capture closed
C7_Witness ==
    /\ cb_event = [kind |-> "stop", cancelled |-> TRUE]
    /\ stop_event.kind = "stop"
    /\ stop_event.cancelled
    /\ ~stream_active
    /\ ~processing

\* C8: in push-to-talk mode start and stop callbacks alternate, beginning
\* with start; a press while the key is held and a release while it is not
\* emit nothing, and a release never emits a start.
C8_PushToTalkAlternates ==
    [][mode = "push_to_talk" =>
         /\ cb_event'.kind = "start" => last_cb \in {"none", "stop"}
         /\ cb_event'.kind = "stop" => last_cb = "start"
         /\ (key_event' = "press" /\ key_held) => cb_event'.kind = "none"
         /\ (key_event' = "release" /\ ~key_held) => cb_event'.kind = "none"
         /\ key_event' = "release" => cb_event'.kind \in {"none", "stop"}
         /\ key_event' = "none" => cb_event'.kind = "none"]_vars

\* a key-repeat press has just been swallowed during a recording
C8_Witness ==
    /\ mode = "push_to_talk"
    /\ key_event = "press"
    /\ cb_event.kind = "none"
    /\ key_held
    /\ last_cb = "start"
    /\ stream_active

\* C9: in toggle mode a callback is emitted only by a press that comes
\* within 300 ms of the preceding press while the listener is armed, start
\* and stop alternating; a press later than that only arms.
C9_ToggleNeedsDoublePress ==
    [][mode = "toggle" =>
         /\ cb_event'.kind # "none" =>
              /\ key_event' = "press"
              /\ toggle_armed
              /\ now - last_press_time <= 300
              /\ recording' = ~recording
              /\ cb_event'.kind = (IF recording THEN "stop" ELSE "start")
              /\ cb_event'.kind = "start" <=> last_cb \in {"none", "stop"}
         /\ (key_event' = "press" /\ now - last_press_time > 300) =>
              /\ toggle_armed'
              /\ cb_event'.kind = "none"
              /\ recording' = recording]_vars

\* an isolated press during a recording has just armed without stopping it
C9_Witness ==
    /\ mode = "toggle"
    /\ key_event = "press"
    /\ cb_event.kind = "none"
    /\ toggle_armed
    /\ recording
    /\ stream_active
    /\ last_press_time > StartMs + 300

\* C10: when the raw transcript, trimmed and lower-cased, is one of the
\* blocklist entries, process returns the empty string, the worker ends
\* without entering insert, the clipboard is left as it was and the flag is
\* released.
Blocklist ==
    {L_thank_you \o <<".">>, L_thanks \o <<".">>,
     L_thanks_for_watching \o <<".">>, L_you, <<".", ".", ".">>, <<",", ",", ",">>}

C10_HallucinationIsNotPasted ==
    [][(proc_event'.kind = "returned" /\ Lower(Strip(proc_event'.raw)) \in Blocklist) =>
         /\ proc_event'.result = EmptyText
         /\ worker'[proc_event'.call].pc = "done"
         /\ clip_event'.kind = "none"
         /\ clipboard' = clipboard
         /\ clip_src' = clip_src
         /\ ~processing']_vars

\* "Thank You." in mixed case with surrounding blanks has just been discarded
C10_Witness ==
    /\ proc_event.kind = "returned"
    /\ proc_event.raw = S_ThankYouDot
    /\ proc_event.result = EmptyText
    /\ ~processing

\* ------------------------------------------------- text as character data
Digits == {"0", "1", "2", "3", "4", "5", "6", "7", "8", "9"}
\* the characters \w matches (the letters outside ASCII that the patterns use
\* included)
WordChars ==
    {LowerCase[i] : i \in 1..Len(LowerCase)} \cup
    {UpperCase[i] : i \in 1..Len(UpperCase)} \cup Digits \cup {"_", "ö", "ü"}

IsWordAt(s, i) == i \in 1..Len(s) /\ s[i] \in WordChars

\* \b between s[i-1] and s[i]
IsBoundary(s, i) == IsWordAt(s, i - 1) # IsWordAt(s, i)

\* the literal, compared as re.IGNORECASE compares, starts at s[i]
HasLiteralAt(s, i, lit) ==
    /\ i >= 1
    /\ i + Len(lit) - 1 <= Len(s)
    /\ \A k \in 1..Len(lit) : LowerChar(s[i + k - 1]) = lit[k]

\* re.compile(r"\b(<lits>)\b", re.IGNORECASE).search(s)
SearchWords(s, lits) ==
    \E i \in 1..Len(s) :
        /\ IsBoundary(s, i)
        /\ \E lit \in lits :
            HasLiteralAt(s, i, lit) /\ IsBoundary(s, i + Len(lit))

\* re.compile(r"\b<prefix><c>+\b", re.IGNORECASE).search(s)
SearchRun(s, prefix, c) ==
    \E i \in 1..Len(s) :
        /\ IsBoundary(s, i)
        /\ HasLiteralAt(s, i, prefix)
        /\ \E n \in 1..Len(s) :
            /\ HasLiteralAt(s, i + Len(prefix), [k \in 1..n |-> c])
            /\ IsBoundary(s, i + Len(prefix) + n)

\* str.endswith(c) for a one-character c
EndsWith(s, c) == s # <<>> /\ s[Len(s)] = c

\* str.endswith((".", "!", "?"))
EndsWithPunctuation(s) == s # <<>> /\ s[Len(s)] \in {".", "!", "?"}

\* len(s.split()): the maximal runs of non-whitespace characters
WordCount(s) ==
    Cardinality({i \in 1..Len(s) :
        s[i] \notin Whitespace /\ (i = 1 \/ s[i - 1] \in Whitespace)})

\* the concatenation of n copies of s
RECURSIVE Repeat(_, _)
Repeat(s, n) == IF n <= 0 THEN <<>> ELSE s \o Repeat(s, n - 1)

\* ------------------------------------------------------- _should_refine

QUESTION_START_WORDS ==
    {<<"w", "h", "o">>, <<"w", "h", "a", "t">>, <<"w", "h", "e", "n">>,
    <<"w", "h", "e", "r", "e">>, <<"w", "h", "y">>, <<"h", "o", "w">>,
    <<"i", "s">>, <<"a", "r", "e">>, <<"a", "m">>, <<"w", "a", "s">>,
    <<"w", "e", "r", "e">>, <<"d", "o">>, <<"d", "o", "e", "s">>,
    <<"d", "i", "d">>, <<"c", "a", "n">>, <<"c", "o", "u", "l", "d">>,
    <<"s", "h", "o", "u", "l", "d">>, <<"w", "o", "u", "l", "d">>,
    <<"w", "i", "l", "l">>, <<"w", "h", "i", "c", "h">>,
    <<"w", "h", "o", "s", "e">>, <<"w", "h", "o", "m">>,
    <<"w", "h", "a", "t", "'", "s">>, <<"w", "h", "a", "t", "s">>,
    <<"i", "s", "n", "'", "t">>, <<"a", "r", "e", "n", "'", "t">>,
    <<"w", "o", "n", "'", "t">>, <<"c", "a", "n", "'", "t">>,
    <<"c", "o", "u", "l", "d", "n", "'", "t">>,
    <<"s", "h", "o", "u", "l", "d", "n", "'", "t">>,
    <<"w", "o", "u", "l", "d", "n", "'", "t">>, <<"w", "e", "r">>,
    <<"w", "a", "n", "n">>, <<"w", "o">>, <<"w", "a", "r", "u", "m">>,
    <<"w", "i", "e">>, <<"i", "s", "t">>, <<"s", "i", "n", "d">>,
    <<"b", "i", "n">>, <<"w", "a", "r">>, <<"w", "a", "r", "e", "n">>,
    <<"k", "a", "n", "n">>, <<"k", "a", "n", "n", "s", "t">>,
    <<"k", "ö", "n", "n", "e", "n">>, <<"s", "o", "l", "l">>,
    <<"s", "o", "l", "l", "t", "e">>, <<"w", "ü", "r", "d", "e">>,
    <<"h", "a", "t">>, <<"h", "a", "b", "e", "n">>, <<"g", "i", "b", "t">>,
    <<"g", "i", "b", "t", "'", "s">>}

CORRECTION_CUE_WORDS ==
    {<<"s", "o", "r", "r", "y">>, <<"i", " ", "m", "e", "a", "n">>,
    <<"i", " ", "m", "e", "a", "n", "t">>,
    <<"n", "o", " ", "w", "a", "i", "t">>,
    <<"w", "a", "i", "t", " ", "n", "o">>,
    <<"s", "c", "r", "a", "t", "c", "h", " ", "t", "h", "a", "t">>,
    <<"n", "e", "v", "e", "r", " ", "m", "i", "n", "d">>,
    <<"l", "e", "t", " ", "m", "e", " ", "r", "e", "p", "h", "r", "a", "s", "e">>,
    <<"c", "o", "r", "r", "e", "c", "t", "i", "o", "n">>,
    <<"r", "a", "t", "h", "e", "r">>}

FILLER_CUE_WORDS ==
    {<<"y", "o", "u", " ", "k", "n", "o", "w">>,
    <<"s", "o", "r", "t", " ", "o", "f">>,
    <<"k", "i", "n", "d", " ", "o", "f">>,
    <<"b", "a", "s", "i", "c", "a", "l", "l", "y">>,
    <<"l", "i", "t", "e", "r", "a", "l", "l", "y">>}

COMPLEX_TEXT_WORDS ==
    {<<"a", "n", "d">>, <<"b", "u", "t">>,
    <<"b", "e", "c", "a", "u", "s", "e">>, <<"t", "h", "e", "n">>}

\* _CORRECTION_CUE_RE.search(s); "no,\s*no" is the one alternative that is not
\* a literal
SearchCorrectionCue(s) ==
    \/ SearchWords(s, CORRECTION_CUE_WORDS)
    \/ \E i \in 1..Len(s) :
        /\ IsBoundary(s, i)
        /\ HasLiteralAt(s, i, <<"n", "o", ",">>)
        /\ \E n \in 0..Len(s) :
            /\ \A k \in 1..n : i + 2 + k <= Len(s) /\ s[i + 2 + k] \in Whitespace
            /\ HasLiteralAt(s, i + 3 + n, <<"n", "o">>)
            /\ IsBoundary(s, i + 5 + n)

\* _FILLER_CUE_RE.search(s)
SearchFillerCue(s) ==
    \/ SearchRun(s, <<"u">>, "m")
    \/ SearchRun(s, <<"u">>, "h")
    \/ SearchRun(s, <<"h", "m">>, "m")
    \/ SearchRun(s, <<"h">>, "m")
    \/ SearchWords(s, FILLER_CUE_WORDS)

\* _COMPLEX_TEXT_RE.search(s)
SearchComplexText(s) ==
    \/ \E i \in 1..Len(s) : s[i] \in {",", ":", ";"}
    \/ SearchWords(s, COMPLEX_TEXT_WORDS)

\* _QUESTION_START_RE.match(stripped)
MatchQuestionStart(stripped) ==
    LET t == StripLeft(stripped)
    IN  \E lit \in QUESTION_START_WORDS :
            HasLiteralAt(t, 1, lit) /\ IsBoundary(t, 1 + Len(lit))

\* len(_SENTENCE_END_RE.findall(text))
SentenceCount(s) == Cardinality({i \in 1..Len(s) : s[i] \in {".", "!", "?"}})

\* "if stripped.endswith("?") or _QUESTION_START_RE.match(stripped)"
IsQuestionShaped_EndOnly(stripped) == EndsWith(stripped, "?")

IsQuestionShaped(stripped) ==
    EndsWith(stripped, "?") \/ MatchQuestionStart(stripped)

\* raw_text is <<>> for None and <<raw>> for a transcript
ShouldRefine(text, raw_text) ==
    LET stripped == Strip(text)
        word_count == WordCount(text)
        has_raw == raw_text # <<>>
        sentence_count == SentenceCount(text)
        has_complexity == SearchComplexText(text)
    IN  IF word_count < 4 THEN FALSE
        ELSE IF word_count >= 60 THEN FALSE
        ELSE IF IsQuestionShaped(stripped) THEN FALSE
        ELSE IF SearchCorrectionCue(text)
                \/ (has_raw /\ SearchCorrectionCue(raw_text[1])) THEN TRUE
        ELSE IF has_raw /\ SearchFillerCue(raw_text[1]) THEN TRUE
        ELSE IF word_count >= 24 THEN FALSE
        ELSE IF sentence_count >= 2 /\ word_count >= 16 THEN FALSE
        ELSE IF word_count >= 40 /\ EndsWithPunctuation(text) THEN FALSE
        ELSE IF word_count <= 10 THEN FALSE
        ELSE IF word_count < 14 /\ EndsWithPunctuation(text) THEN FALSE
        ELSE IF EndsWithPunctuation(text) /\ word_count < 24 /\ ~has_complexity
             THEN FALSE
        ELSE IF has_complexity /\ ~EndsWithPunctuation(text) THEN TRUE
        ELSE word_count >= 22 /\ ~EndsWithPunctuation(text)

\* process: the refiner is consulted when it exists, the cleanup mode is not
\* "fast", its model is loaded and the gate said yes
RefinerIsCalled(env, needs_refinement) ==
    env.has_refiner /\ env.cleanup_mode # "fast" /\ env.loaded /\ needs_refinement

GateHeads ==
    {<<"w", "h", "a", "t">>, <<"W", "i", "e">>,
    <<"w", "h", "a", "t", "e", "v", "e", "r">>,
    <<"p", "l", "e", "a", "s", "e">>, <<" ", "I", "s">>,
    <<"w", "h", "a", "t", "'", "s">>}

GateMiddles ==
    {<<" ", "s", "o", "r", "r", "y">>,
    <<",", " ", "a", "n", "d", " ", "s", "o">>,
    <<" ", "n", "o", ",", " ", " ", "n", "o">>}

GateEnds ==
    {<<"?">>, <<".">>, <<"?", " ">>}

GateRaws ==
    {<<"u", "m", " ", "o", "k">>,
    <<"i", " ", "m", "e", "a", "n", " ", "i", "t">>, <<"f", "i", "n", "e">>}

\* cleaned texts handed to the gate: a first word, filler words, an optional
\* cue or clause, an optional end
MaxBodyWords == 59
GateBodyWords == {0, 3, 9, 12, 21, MaxBodyWords - 1, MaxBodyWords}

GateTexts ==
    {h \o Repeat(<<" ", "a", "b">>, n) \o m \o e :
        h \in GateHeads, n \in GateBodyWords,
        m \in GateMiddles \cup {<<>>}, e \in GateEnds \cup {<<>>}}

\* the refiner as process finds it: absent ("fast"), present and still
\* loading, present and loaded
GateEnvs ==
    {[has_refiner |-> FALSE, cleanup_mode |-> "fast", loaded |-> FALSE],
     [has_refiner |-> TRUE, cleanup_mode |-> "standard", loaded |-> FALSE],
     [has_refiner |-> TRUE, cleanup_mode |-> "standard", loaded |-> TRUE]}

InitShouldRefine ==
    /\ AppIdle
    /\ MachinesIdle
    /\ fn_args \in
         [fn : {"_should_refine"}, text : GateTexts,
          raw_text : {<<r>> : r \in GateRaws}, env : GateEnvs]
    /\ fn_ret = NoCall

\* needs_refinement = self._should_refine(cleaned, raw_text=raw), then the
\* condition under which process calls self.refiner.refine
CallShouldRefine ==
    /\ fn_args.fn = "_should_refine"
    /\ fn_ret = NoCall
    /\ LET needs_refinement == ShouldRefine(fn_args.text, fn_args.raw_text)
       IN  fn_ret' =
             [fn |-> "_should_refine",
              value |-> needs_refinement,
              refiner_called |-> RefinerIsCalled(fn_args.env, needs_refinement)]
    /\ UNCHANGED <<appVars, smVars, fn_args>>

NextShouldRefine == CallShouldRefine

SpecShouldRefine == InitShouldRefine /\ [][NextShouldRefine]_vars

\* the first word of a text: its leading run of letters, digits and
\* apostrophes, in lower case
RECURSIVE LeadingWord(_)
LeadingWord(s) ==
    IF s # <<>> /\ Head(s) \in WordChars \cup {"'"}
    THEN <<LowerChar(Head(s))>> \o LeadingWord(Tail(s))
    ELSE <<>>

StartsWithQuestionWord(s) == LeadingWord(StripLeft(s)) \in QUESTION_START_WORDS

\* C11: for a cleaned text that ends with "?" or starts with a question
\* word, _should_refine returns false, whatever the word count and the
\* cues in the cleaned or raw text, and process does not call the refiner.
C11_QuestionsSkipRefiner ==
    (/\ fn_ret # NoCall
     /\ \/ EndsWith(fn_args.text, "?")
        \/ StartsWithQuestionWord(fn_args.text))
    => (fn_ret.value = FALSE /\ ~fn_ret.refiner_called)

\* a question of ordinary length with a correction cue, before a loaded
\* refiner, has gone through the gate
C11_Witness ==
    /\ fn_ret # NoCall
    /\ fn_ret.fn = "_should_refine"
    /\ StartsWithQuestionWord(fn_args.text)
    /\ ~EndsWith(Strip(fn_args.text), "?")
    /\ WordCount(fn_args.text) \in 4..59
    /\ SearchCorrectionCue(fn_args.text)
    /\ fn_args.env.loaded

\* ------------------------------------------------ TextRefiner._is_answer_like
\* re.compile(r"^\s*(<lits>)\b", re.IGNORECASE).match(s)
MatchStart(s, lits) ==
    LET t == StripLeft(s)
    IN  \E lit \in lits : HasLiteralAt(t, 1, lit) /\ IsBoundary(t, 1 + Len(lit))

\* where a phrase whose words are separated by \s+ can end when it starts
\* at s[i]
RECURSIVE PhraseEnds(_, _, _)
PhraseEnds(s, i, words) ==
    IF ~HasLiteralAt(s, i, Head(words)) THEN {}
    ELSE LET j == i + Len(Head(words))
         IN  IF Len(words) = 1 THEN {j}
             ELSE UNION {PhraseEnds(s, j + n, Tail(words)) :
                    n \in {m \in 1..(Len(s) + 1 - j) :
                             \A k \in 0..(m - 1) : s[j + k] \in Whitespace}}

\* the same match for phrases
MatchStartPhrase(s, phrases) ==
    LET t == StripLeft(s)
    IN  \E p \in phrases : \E j \in PhraseEnds(t, 1, p) : IsBoundary(t, j)

ASSISTANTY_START_WORDS ==
    {<<"s", "u", "r", "e">>, <<"c", "e", "r", "t", "a", "i", "n", "l", "y">>,
    <<"a", "b", "s", "o", "l", "u", "t", "e", "l", "y">>,
    <<"h", "e", "r", "e", "'", "s">>, <<"h", "e", "r", "e", " ", "i", "s">>,
    <<"l", "e", "t", "'", "s">>, <<"i", " ", "c", "a", "n">>,
    <<"y", "o", "u", " ", "c", "a", "n">>,
    <<"t", "o", " ", "d", "o", " ", "t", "h", "i", "s">>,
    <<"f", "i", "r", "s", "t", ",">>,
    <<"h", "e", "r", "e", " ", "a", "r", "e">>,
    <<"t", "h", "i", "s", " ", "v", "e", "r", "s", "i", "o", "n">>}

ANSWER_START_PHRASES ==
    {<<<<"y", "e", "s">>>>, <<<<"n", "o">>>>, <<<<"i", "t">>, <<"i", "s">>>>,
     <<<<"i", "t", "'", "s">>>>, <<<<"t", "h", "i", "s">>, <<"i", "s">>>>,
     <<<<"t", "h", "e">>, <<"a", "n", "s", "w", "e", "r">>>>, <<<<"y", "o",
     "u">>, <<"c", "a", "n">>>>, <<<<"y", "o", "u">>, <<"s", "h", "o", "u",
     "l", "d">>>>, <<<<"b", "e", "c", "a", "u", "s", "e">>>>, <<<<"i", "n">>,
     <<"s", "u", "m", "m", "a", "r", "y">>>>, <<<<"t", "o">>, <<"a", "n", "s",
     "w", "e", "r">>>>, <<<<"j", "a">>>>, <<<<"n", "e", "i", "n">>>>, <<<<"d",
     "i", "e">>, <<"a", "n", "t", "w", "o", "r", "t">>>>, <<<<"d", "u">>,
     <<"k", "a", "n", "n", "s", "t">>>>, <<<<"s", "i", "e">>, <<"k", "ö", "n",
     "n", "e", "n">>>>, <<<<"w", "e", "i", "l">>>>, <<<<"k", "u", "r", "z">>,
     <<"g", "e", "s", "a", "g", "t">>>>}

COMMON_WORDS ==
    {<<"a">>, <<"a", "n">>, <<"a", "n", "d">>, <<"a", "r", "e">>,
    <<"a", "s">>, <<"a", "t">>, <<"b", "e">>, <<"b", "u", "t">>,
    <<"b", "y">>, <<"f", "o", "r">>, <<"f", "r", "o", "m">>,
    <<"h", "o", "w">>, <<"i">>, <<"i", "n">>, <<"i", "s">>, <<"i", "t">>,
    <<"i", "t", "s">>, <<"m", "e">>, <<"m", "y">>, <<"o", "f">>,
    <<"o", "n">>, <<"o", "r">>, <<"o", "u", "r">>, <<"t", "h", "a", "t">>,
    <<"t", "h", "e">>, <<"t", "h", "i", "s">>, <<"t", "o">>, <<"w", "e">>,
    <<"w", "h", "a", "t">>, <<"w", "h", "e", "n">>,
    <<"w", "h", "e", "r", "e">>, <<"w", "h", "i", "c", "h">>,
    <<"w", "h", "o">>, <<"w", "h", "y">>, <<"w", "i", "t", "h">>,
    <<"y", "o", "u">>, <<"y", "o", "u", "r">>}

\* the characters of _TOKEN_RE, [A-Za-z0-9_']
TokenChars ==
    {LowerCase[i] : i \in 1..Len(LowerCase)} \cup
    {UpperCase[i] : i \in 1..Len(UpperCase)} \cup Digits \cup {"_", "'"}

IsTokenAt(s, i) == i \in 1..Len(s) /\ s[i] \in TokenChars

\* {tok.lower() for tok in _TOKEN_RE.findall(text)}
Tokens(s) ==
    {Lower(SubSeq(s, i, j)) : <<i, j>> \in
        {p \in (1..Len(s)) \X (1..Len(s)) :
            /\ p[1] <= p[2]
            /\ \A k \in p[1]..p[2] : IsTokenAt(s, k)
            /\ ~IsTokenAt(s, p[1] - 1)
            /\ ~IsTokenAt(s, p[2] + 1)}}

\* _keywords
Keywords(s) == {t \in Tokens(s) : Len(t) > 2 /\ t \notin COMMON_WORDS}

\* _looks_like_question
LooksLikeQuestion(text) == IsQuestionShaped(Strip(text))

Max(a, b) == IF a >= b THEN a ELSE b

\* "_ASSISTANTY_START_RE.match(candidate) and not
\* _ASSISTANTY_START_RE.match(source)"
IsAnswerLike(source, candidate) ==
    LET lower_candidate == Lower(Strip(candidate))
        source_is_question == LooksLikeQuestion(source)
        candidate_is_question == LooksLikeQuestion(candidate)
        source_keywords == Keywords(source)
        candidate_keywords == Keywords(candidate)
        new_tokens == candidate_keywords \ source_keywords
    IN  IF WordCount(candidate) >
             Max(WordCount(source) * 2, WordCount(source) + 12) THEN TRUE
        ELSE IF \E p \in {<<"a", "n", "s", "w", "e", "r", ":">>,
                          <<"r", "e", "s", "p", "o", "n", "s", "e", ":">>,
                          <<"e", "x", "p", "l", "a", "n", "a", "t", "i", "o", "n", ":">>} :
                    HasLiteralAt(lower_candidate, 1, p) THEN TRUE
        ELSE IF MatchStart(candidate, ASSISTANTY_START_WORDS)
                /\ ~MatchStart(source, ASSISTANTY_START_WORDS) THEN TRUE
        ELSE IF source_is_question
                /\ MatchStartPhrase(lower_candidate, ANSWER_START_PHRASES) THEN TRUE
        ELSE IF source_is_question /\ ~candidate_is_question
                /\ ~MatchQuestionStart(lower_candidate) THEN TRUE
        ELSE /\ candidate_keywords # {}
             \* novelty_ratio > 0.45
             /\ 100 * Cardinality(new_tokens) > 45 * Cardinality(candidate_keywords)
             /\ Cardinality(candidate_keywords) >= 6

\* refine, from the sanitized candidate on
Refine(text, candidate) ==
    IF candidate = <<>> THEN <<>>
    ELSE IF IsAnswerLike(text, candidate) THEN <<>>
    ELSE candidate

RefineSources ==
    {<<"o", "p", "e", "n", " ", "t", "h", "e", " ", "f", "i", "l", "e">>,
    <<"l", "e", "t", "'", "s", " ", "o", "p", "e", "n", " ", "t", "h", "e", " ", "f", "i", "l", "e">>,
    <<"i", "s", " ", "t", "h", "e", " ", "f", "i", "l", "e", " ", "o", "p", "e", "n">>,
    <<"S", "u", "r", "e", ",", " ", "o", "p", "e", "n", " ", "t", "h", "e", " ", "o", "l", "d", " ", "f", "i", "l", "e">>,
    <<"o", "p", "e", "n">>}

CandidateTails ==
    {<<" ", "o", "p", "e", "n", " ", "t", "h", "e", " ", "f", "i", "l", "e">>,
    <<" ", "o", "p", "e", "n", " ", "t", "h", "e", " ", "n", "e", "w", " ", "f", "i", "l", "e">>,
    <<" ", "O", "p", "e", "n", " ", "t", "h", "e", " ", "f", "i", "l", "e", ".">>}

OtherStarts ==
    {<<"s", "u", "r", "e", "l", "y">>, <<"f", "i", "r", "s", "t", "l", "y">>,
    <<"t", "h", "e", "n">>}

\* what the model may answer: one of the openers of _ASSISTANTY_START_RE, or
\* another first word, followed by the dictated words
RefineCandidates ==
    {o \o t : o \in ASSISTANTY_START_WORDS \cup OtherStarts, t \in CandidateTails}

InitIsAnswerLike ==
    /\ AppIdle
    /\ MachinesIdle
    /\ fn_args \in
         [fn : {"_is_answer_like"}, source : RefineSources,
          candidate : RefineCandidates]
    /\ fn_ret = NoCall

\* refine: "if self._is_answer_like(source=text, candidate=candidate): return """
CallIsAnswerLike ==
    /\ fn_args.fn = "_is_answer_like"
    /\ fn_ret = NoCall
    /\ fn_ret' =
         [fn |-> "_is_answer_like",
          value |-> IsAnswerLike(fn_args.source, fn_args.candidate),
          refined |-> Refine(fn_args.source, fn_args.candidate)]
    /\ UNCHANGED <<appVars, smVars, fn_args>>

SpecIsAnswerLike == InitIsAnswerLike /\ [][CallIsAnswerLike]_vars

\* a text starts with an assistant-style opener: the opener's characters,
\* not continued by a letter or digit
StartsWithOpener(s) ==
    LET t == StripLeft(s)
    IN  \E lit \in ASSISTANTY_START_WORDS :
            HasLiteralAt(t, 1, lit) /\ ~IsWordAt(t, 1 + Len(lit))

\* C12: when the candidate starts with an assistant-style opener and the
\* source does not, _is_answer_like is true and refine returns the empty
\* text.
C12_OpenersAreRejected ==
    (/\ fn_ret # NoCall
     /\ fn_args.fn = "_is_answer_like"
     /\ StartsWithOpener(fn_args.candidate)
     /\ ~StartsWithOpener(fn_args.source))
    => (fn_ret.value = TRUE /\ fn_ret.refined = <<>>)

\* --------------------------------------------------------- TextCleaner.clean
\* str.split(): the words of a text
RECURSIVE SplitWords(_)
SplitWords(s) ==
    LET t == StripLeft(s)
    IN  IF t = <<>> THEN <<>>
        ELSE LET n == CHOOSE i \in 1..Len(t) :
                        /\ \A k \in 1..i : t[k] \notin Whitespace
                        /\ (i = Len(t) \/ t[i + 1] \in Whitespace)
             IN  <<SubSeq(t, 1, n)>> \o SplitWords(SubSeq(t, n + 1, Len(t)))

\* " ".join(words)
RECURSIVE JoinWords(_)
JoinWords(words) ==
    IF words = <<>> THEN <<>>
    ELSE IF Len(words) = 1 THEN words[1]
    ELSE words[1] \o <<" ">> \o JoinWords(Tail(words))

UpperChar(c) ==
    IF \E i \in 1..Len(LowerCase) : LowerCase[i] = c
    THEN UpperCase[CHOOSE i \in 1..Len(LowerCase) : LowerCase[i] = c]
    ELSE c

LEADING_DISCOURSE_WORDS ==
    {<<"o", "k", "a", "y">>, <<"o", "k">>, <<"w", "e", "l", "l">>,
    <<"s", "o">>}

TRAILING_CONJUNCTIONS ==
    {<<"a", "n", "d">>, <<"o", "r">>, <<"b", "u", "t">>, <<"s", "o">>,
    <<"b", "e", "c", "a", "u", "s", "e">>, <<"t", "h", "e", "n">>}

\* _LEADING_DISCOURSE.sub('', text): "^\s*(?:(?:okay|ok|well|so)\s*,?\s*)+"
\* eats the listed words from the front, each with the blanks and the comma
\* after it
RECURSIVE StripLeadingDiscourse(_)
StripLeadingDiscourse(s) ==
    LET t == StripLeft(s)
    IN  IF \E d \in LEADING_DISCOURSE_WORDS : HasLiteralAt(t, 1, d)
        THEN LET d == IF HasLiteralAt(t, 1, <<"o", "k", "a", "y">>)
                      THEN <<"o", "k", "a", "y">>
                      ELSE CHOOSE x \in LEADING_DISCOURSE_WORDS : HasLiteralAt(t, 1, x)
                 rest == StripLeft(SubSeq(t, Len(d) + 1, Len(t)))
                 after == IF rest # <<>> /\ Head(rest) = ","
                          THEN StripLeft(Tail(rest)) ELSE rest
                 eaten == StripLeadingDiscourse(after)
             \* with nothing more to eat the match ends here
             IN  IF eaten = StripLeft(after) THEN after ELSE eaten
        ELSE s

\* _REPEATED_WORD.sub(cls._dedupe_repeated_word, text): a word repeated in
\* a row is kept once, except "no"
RECURSIVE DedupeRepeatedWords(_)
DedupeRepeatedWords(words) ==
    IF Len(words) < 2 THEN words
    ELSE IF /\ Lower(words[1]) = Lower(words[2])
            /\ Lower(words[1]) # <<"n", "o">>
            /\ \A i \in 1..Len(words[1]) : words[1][i] \in WordChars
         THEN DedupeRepeatedWords(<<words[1]>> \o SubSeq(words, 3, Len(words)))
         ELSE <<words[1]>> \o DedupeRepeatedWords(Tail(words))

\* re.sub(re.escape(wrong), right, text, flags=re.IGNORECASE)
RECURSIVE ReplaceAll(_, _, _)
ReplaceAll(s, wrong, right) ==
    IF s = <<>> THEN <<>>
    ELSE IF HasLiteralAt(s, 1, Lower(wrong))
         THEN right \o ReplaceAll(SubSeq(s, Len(wrong) + 1, Len(s)), wrong, right)
         ELSE <<Head(s)>> \o ReplaceAll(Tail(s), wrong, right)

\* the dictionary loop of clean, longest wrong term first
RECURSIVE ApplyDictionary(_, _)
ApplyDictionary(s, dictionary) ==
    IF dictionary = <<>> THEN s
    ELSE ApplyDictionary(
            ReplaceAll(s, Head(dictionary).wrong, Head(dictionary).right),
            Tail(dictionary))

\* _TRAILING_CONJUNCTION_RE.sub("", text): one substitution, anchored at the
\* end of the text
StripTrailingConjunction(words) ==
    IF words # <<>> /\ Lower(words[Len(words)]) \in TRAILING_CONJUNCTIONS
    THEN SubSeq(words, 1, Len(words) - 1)
    ELSE words

\* _TERMINAL_PUNCT_RE.search(s): r'[.!?]["\')\]]?$'
SearchTerminalPunctuation(s) ==
    \/ EndsWithPunctuation(s)
    \/ /\ Len(s) >= 2
       /\ s[Len(s)] \in {"\"", "'", ")", "]"}
       /\ s[Len(s) - 1] \in {".", "!", "?"}

\* _normalize_readability, for a text of plain words without the pronoun
\* "I": the trailing conjunction, the capital first letter, the full stop
\* of a text of eight words or more that has none
NormalizeReadability(words) ==
    LET kept == StripTrailingConjunction(words)
        text == JoinWords(kept)
        capital == IF text = <<>> THEN text
                   ELSE <<UpperChar(Head(text))>> \o Tail(text)
    IN  IF Len(kept) >= 8 /\ ~SearchTerminalPunctuation(capital)
        THEN capital \o <<".">> ELSE capital

FILLER_REPLACE_WORDS ==
    {<<<<"y", "o", "u">>, <<"k", "n", "o", "w">>>>,
     <<<<"s", "o", "r", "t">>, <<"o", "f">>>>,
     <<<<"k", "i", "n", "d">>, <<"o", "f">>>>,
     <<<<"b", "a", "s", "i", "c", "a", "l", "l", "y">>>>,
     <<<<"l", "i", "t", "e", "r", "a", "l", "l", "y">>>>}

\* _FILLER_REPLACE_SPACE.sub(' ', text), for words separated by blanks: the
\* listed words go, from left to right
RECURSIVE DropFillerWords(_)
DropFillerWords(words) ==
    IF words = <<>> THEN <<>>
    ELSE IF Len(words) >= 2
            /\ <<Lower(words[1]), Lower(words[2])>> \in FILLER_REPLACE_WORDS
         THEN DropFillerWords(SubSeq(words, 3, Len(words)))
    ELSE IF <<Lower(words[1])>> \in FILLER_REPLACE_WORDS
         THEN DropFillerWords(Tail(words))
    ELSE <<words[1]>> \o DropFillerWords(Tail(words))

\* TextCleaner.clean for texts made of plain words: the steps that act on
\* such a text, in the order of the code.  The hesitation, self-correction,
\* clause, sentence and tagging steps find nothing in it, and the closing
\* substitutions leave single blanks between the words.
Clean(text, dictionary, programmer_mode) ==
    LET no_discourse == StripLeadingDiscourse(text)
        no_fillers == DropFillerWords(SplitWords(no_discourse))
        deduped == JoinWords(DedupeRepeatedWords(no_fillers))
        replaced == ApplyDictionary(deduped, dictionary)
    IN  NormalizeReadability(SplitWords(replaced))

CleanVocabulary ==
    {<<"w", "e">>, <<"g", "o">>, <<"a", "n", "d">>, <<"s", "o">>,
    <<"b", "u", "t">>, <<"t", "e", "s", "t">>}

\* dictated texts of plain words, up to MaxCleanWords of them
MaxCleanWords == 3

RECURSIVE PlainTexts(_)
PlainTexts(n) ==
    IF n = 0 THEN {<<>>}
    ELSE LET shorter == PlainTexts(n - 1)
         IN  shorter \cup
             {IF t = <<>> THEN w ELSE t \o <<" ">> \o w :
                t \in shorter, w \in CleanVocabulary}

\* no dictionary, or one with a term that is part of its own replacement
CleanDictionaries ==
    {<<>>,
     <<[wrong |-> <<"t", "e", "s", "t">>, right |-> <<"t", "e", "s", "t", "s">>]>>}

InitClean ==
    /\ AppIdle
    /\ MachinesIdle
    /\ fn_args \in
         [fn : {"clean"}, text : PlainTexts(MaxCleanWords),
          dictionary : CleanDictionaries, programmer_mode : BOOLEAN]
    /\ fn_ret = NoCall

\* process: cleaned = self.cleaner.clean(raw, ...), and with no refinement
\* accepted, finalized = self.cleaner.clean(cleaned, ...)
CallClean ==
    /\ fn_args.fn = "clean"
    /\ fn_ret = NoCall
    /\ LET cleaned == Clean(fn_args.text, fn_args.dictionary, fn_args.programmer_mode)
       IN  fn_ret' =
             [fn |-> "clean",
              cleaned |-> cleaned,
              finalized |-> Clean(cleaned, fn_args.dictionary, fn_args.programmer_mode)]
    /\ UNCHANGED <<appVars, smVars, fn_args>>

SpecClean == InitClean /\ [][CallClean]_vars

\* C13: clean is idempotent: cleaning a cleaned text again, with the same
\* dictionary and programmer_mode, changes nothing.
C13_CleanIsIdempotent ==
    (fn_ret # NoCall /\ fn_args.fn = "clean") => fn_ret.finalized = fn_ret.cleaned

\* ------------------------------------------------- _preserve_completeness
ORPHAN_END_WORDS ==
    {<<"a", "n", "d">>, <<"o", "r">>, <<"b", "u", "t">>,
    <<"a", "l", "s", "o">>, <<"s", "o">>,
    <<"b", "e", "c", "a", "u", "s", "e">>, <<"t", "h", "e", "n">>,
    <<"i", "f">>, <<"t", "h", "a", "t">>, <<"w", "h", "i", "c", "h">>,
    <<"w", "h", "o">>, <<"w", "h", "e", "n">>, <<"w", "h", "e", "r", "e">>,
    <<"w", "h", "i", "l", "e">>, <<"a", "l", "t", "h", "o", "u", "g", "h">>,
    <<"h", "o", "w", "e", "v", "e", "r">>,
    <<"t", "h", "e", "r", "e", "f", "o", "r", "e">>}

\* _ORPHAN_END_RE.search(s): r"\b(<words>)$"
SearchOrphanEnd(s) ==
    \E lit \in ORPHAN_END_WORDS :
        LET i == Len(s) - Len(lit) + 1
        IN  HasLiteralAt(s, i, lit) /\ IsBoundary(s, i)

\* int(words * 0.78), int(words * 0.55): the float products, truncated
IntPercent(words, percent) == (words * percent) \div 100

\* TextCleaner.clean_conservative: clean without the self-correction step,
\* which finds nothing in a text of plain words
CleanConservative(text, dictionary, programmer_mode) ==
    Clean(text, dictionary, programmer_mode)

\* "severe_drop = cleaned_words < int(raw_words * 0.55)"
IsSevereDrop_Never(cleaned_words, raw_words) == FALSE

IsSevereDrop(cleaned_words, raw_words) ==
    cleaned_words < IntPercent(raw_words, 55)

\* _preserve_completeness: the text it returns, and whether it ran
\* clean_conservative
PreserveCompleteness(raw, cleaned, dictionary_terms, programmer_mode) ==
    LET raw_words == WordCount(raw)
        cleaned_words == WordCount(cleaned)
        kept == [text |-> cleaned, fallback |-> FALSE]
    IN  IF raw_words < 24 \/ cleaned_words = 0 THEN kept
        ELSE IF SearchCorrectionCue(raw) THEN kept
        ELSE IF cleaned_words >= IntPercent(raw_words, 78) THEN kept
        ELSE IF ~IsSevereDrop(cleaned_words, raw_words)
                /\ ~SearchOrphanEnd(Strip(cleaned)) THEN kept
        ELSE LET conservative ==
                    CleanConservative(raw, dictionary_terms, programmer_mode)
             IN  IF WordCount(conservative) > cleaned_words
                 THEN [text |-> conservative, fallback |-> TRUE]
                 ELSE [text |-> cleaned, fallback |-> TRUE]

\* process from the raw transcript on, for a transcript of plain words and
\* no refinement: clean, the final clean, _preserve_completeness
ProcessPlain(raw, programmer_mode) ==
    IF Strip(raw) = <<>> THEN [text |-> <<>>, fallback |-> FALSE]
    ELSE LET cleaned == Clean(raw, <<>>, programmer_mode)
             finalized == Clean(cleaned, <<>>, programmer_mode)
         IN  PreserveCompleteness(
                 raw,
                 IF Strip(finalized) # <<>> THEN finalized ELSE cleaned,
                 <<>>, programmer_mode)

\* raw transcripts: "we go" said several times, then "test" repeated in a
\* row (the cleaner keeps one), then possibly a dangling "that"
MaxRepeats == 26
CompletenessRaws ==
    {Strip(Repeat(<<"w", "e", " ", "g", "o", " ">>, a)
           \o Repeat(<<"t", "e", "s", "t", " ">>, b) \o e) :
        a \in {0, 1, 2, 9, 10, 11, 12},
        b \in {1, 2, 5, 8, 12, MaxRepeats - 1, MaxRepeats},
        e \in {<<>>, <<"t", "h", "a", "t">>}}

InitCompleteness ==
    /\ AppIdle
    /\ MachinesIdle
    /\ fn_args \in [fn : {"process"}, raw : CompletenessRaws, programmer_mode : {TRUE}]
    /\ fn_ret = NoCall

CallProcessPlain ==
    /\ fn_args.fn = "process"
    /\ fn_ret = NoCall
    /\ LET r == ProcessPlain(fn_args.raw, fn_args.programmer_mode)
       IN  fn_ret' = [fn |-> "process", text |-> r.text, fallback |-> r.fallback]
    /\ UNCHANGED <<appVars, smVars, fn_args>>

SpecCompleteness == InitCompleteness /\ [][CallProcessPlain]_vars

\* C14 as stated: the returned text has at least 0.78 times the raw
\* transcript's words, or the completeness fallback has fired.
C14_Original ==
    (fn_ret # NoCall /\ fn_args.fn = "process")
    => \/ 100 * WordCount(fn_ret.text) >= 78 * WordCount(fn_args.raw)
       \/ fn_ret.fallback

\* C14, amended: for a raw transcript of at least 24 words without a
\* correction cue and a text that is not empty, the returned text has at
\* least int(0.78 x raw words) words, or the fallback has fired, or the
\* text keeps at least int(0.55 x raw words) words and does not end in an
\* orphan conjunction; a shorter transcript is returned without fallback.
C14_CompletenessFallback ==
    (fn_ret # NoCall /\ fn_args.fn = "process")
    => LET raw_words == WordCount(fn_args.raw)
           words == WordCount(fn_ret.text)
       IN  /\ (raw_words >= 24 /\ ~SearchCorrectionCue(fn_args.raw) /\ words > 0)
              => \/ words >= IntPercent(raw_words, 78)
                 \/ fn_ret.fallback
                 \/ /\ words >= IntPercent(raw_words, 55)
                    /\ ~SearchOrphanEnd(fn_ret.text)
           /\ raw_words < 24 => ~fn_ret.fallback

\* a long transcript lost more than 45 % of its words and the fallback ran
C14_Witness ==
    /\ fn_ret # NoCall
    /\ fn_args.fn = "process"
    /\ WordCount(fn_args.raw) >= 24
    /\ WordCount(fn_ret.text) < IntPercent(WordCount(fn_args.raw), 55)
    /\ ~SearchOrphanEnd(fn_ret.text)
    /\ fn_ret.fallback

\* ------------------------------------------------------- _find_token_overlap
MIN_OVERLAP_WORDS == 4
MAX_OVERLAP_WORDS == 20

Min(a, b) == IF a <= b THEN a ELSE b

\* left[-size:] and right[:size]
LastTokens(left, size) == SubSeq(left, Len(left) - size + 1, Len(left))
FirstTokens(right, size) == SubSeq(right, 1, size)

\* sum(1 for a, b in zip(l_slice, r_slice) if a != b)
Mismatches(left, right, size) ==
    Cardinality({i \in 1..size :
        LastTokens(left, size)[i] # FirstTokens(right, size)[i]})

\* "allowed = size // 6"
AllowedMismatches_Quarter(size) == size \div 4

AllowedMismatches(size) == size \div 6

\* the largest member of a set of sizes that is not empty
Largest(sizes) == CHOOSE s \in sizes : \A t \in sizes : t <= s

\* _find_token_overlap: each loop runs from upper down and returns the
\* first size that passes, the largest one
FindTokenOverlap(left, right) ==
    IF left = <<>> \/ right = <<>> THEN 0
    ELSE LET upper == Min(MAX_OVERLAP_WORDS, Min(Len(left), Len(right)))
             exact == {size \in MIN_OVERLAP_WORDS..upper :
                         LastTokens(left, size) = FirstTokens(right, size)}
             fuzzy == {size \in Max(MIN_OVERLAP_WORDS, 6)..upper :
                         Mismatches(left, right, size) <= AllowedMismatches(size)}
         IN  IF exact # {} THEN Largest(exact)
             ELSE IF fuzzy # {} THEN Largest(fuzzy)
             ELSE 0

\* token lists of two adjacent chunks: the left one ends with n tokens that
\* repeat with a period, the right one starts with the same n tokens, some
\* of them heard differently; other tokens may stand before and after.
\* Tokens are numbers here: only their equality matters.
MaxOverlapTokens == 22

Misheard == 0 - 1
Before == 0 - 2
After == 0 - 3

OverlapBody(n, period) == [i \in 1..n |-> i % period]

OverlapInputs ==
    {[fn |-> "_find_token_overlap",
      left |-> lead \o OverlapBody(n, period),
      right |-> [i \in 1..n |->
                    IF i \in misheard THEN Misheard ELSE OverlapBody(n, period)[i]]
                \o trail] :
        n \in 0..MaxOverlapTokens,
        period \in {1, 3, MaxOverlapTokens + 2},
        misheard \in SUBSET {1, 3, 5, 7},
        lead \in {<<>>, <<Before>>}, trail \in {<<>>, <<After>>}}

InitFindTokenOverlap ==
    /\ AppIdle
    /\ MachinesIdle
    /\ fn_args \in OverlapInputs
    /\ fn_ret = NoCall

CallFindTokenOverlap ==
    /\ fn_args.fn = "_find_token_overlap"
    /\ fn_ret = NoCall
    /\ fn_ret' = [fn |-> "_find_token_overlap",
                  value |-> FindTokenOverlap(fn_args.left, fn_args.right)]
    /\ UNCHANGED <<appVars, smVars, fn_args>>

SpecFindTokenOverlap == InitFindTokenOverlap /\ [][CallFindTokenOverlap]_vars

\* the sizes from 4 to 20, within both lists, at which the end of L equals
\* the start of R
ExactOverlaps(L, R) ==
    {size \in 4..20 :
        /\ size <= Len(L) /\ size <= Len(R)
        /\ \A i \in 1..size : L[Len(L) - size + i] = R[i]}

\* C15: _find_token_overlap(L, R) returns k with 0 <= k <= min(|L|, |R|, 20)
\* and k = 0 or k >= 4; when some size in 4..20 matches exactly, k is the
\* largest such size; otherwise a k > 0 is at least 6 and L[-k:], R[:k]
\* differ in at most floor(k / 6) places.
C15_OverlapIsBounded ==
    (fn_ret # NoCall /\ fn_args.fn = "_find_token_overlap")
    => LET L == fn_args.left
           R == fn_args.right
           k == fn_ret.value
       IN  /\ k \in 0..20 /\ k <= Len(L) /\ k <= Len(R)
           /\ k = 0 \/ k >= 4
           /\ ExactOverlaps(L, R) # {}
                => /\ k \in ExactOverlaps(L, R)
                   /\ \A size \in ExactOverlaps(L, R) : size <= k
           /\ (ExactOverlaps(L, R) = {} /\ k > 0)
                => /\ k >= 6
                   /\ Cardinality({i \in 1..k : L[Len(L) - k + i] # R[i]})
                        <= k \div 6

\* a fuzzy overlap was returned: no exact size, twelve tokens or more, two
\* of them different
C15_Witness ==
    /\ fn_ret # NoCall
    /\ fn_args.fn = "_find_token_overlap"
    /\ ExactOverlaps(fn_args.left, fn_args.right) = {}
    /\ fn_ret.value >= 12
    /\ Mismatches(fn_args.left, fn_args.right, fn_ret.value) = 2

\* --------------------------------------------------- _merge_transcript_parts
\* _word_tokens: the matches of _WORD_TOKEN_RE, [A-Za-z0-9_']+, in lower case
RECURSIVE WordTokens(_)
WordTokens(text) ==
    IF text = <<>> THEN <<>>
    ELSE IF text[1] \notin TokenChars THEN WordTokens(Tail(text))
    ELSE LET n == CHOOSE i \in 1..Len(text) :
                    /\ \A k \in 1..i : text[k] \in TokenChars
                    /\ (i = Len(text) \/ text[i + 1] \notin TokenChars)
         IN  <<Lower(SubSeq(text, 1, n))>>
                \o WordTokens(SubSeq(text, n + 1, Len(text)))

\* text[matches[token_count - 1].end():] for the matches of _TOKEN_SPLIT_RE,
\* \S+: the text after its first token_count runs of non-whitespace
RECURSIVE AfterTokens(_, _)
AfterTokens(text, token_count) ==
    IF token_count = 0 THEN text
    ELSE LET t == StripLeft(text)
             n == CHOOSE i \in 1..Len(t) :
                    /\ \A k \in 1..i : t[k] \notin Whitespace
                    /\ (i = Len(t) \/ t[i + 1] \in Whitespace)
         IN  AfterTokens(SubSeq(t, n + 1, Len(t)), token_count - 1)

\* _drop_leading_tokens
DropLeadingTokens(text, token_count) ==
    IF token_count <= 0 THEN Strip(text)
    ELSE IF token_count >= Len(SplitWords(text)) THEN <<>>
    ELSE StripLeft(AfterTokens(text, token_count))

\* the loop of _merge_transcript_parts over cleaned_parts[1:]
RECURSIVE MergeInto(_, _)
MergeInto(merged, parts) ==
    IF parts = <<>> THEN merged
    ELSE LET overlap == FindTokenOverlap(WordTokens(merged),
                                         WordTokens(parts[1]))
             trimmed_part == DropLeadingTokens(parts[1], overlap)
         IN  IF trimmed_part = <<>> THEN MergeInto(merged, Tail(parts))
             ELSE MergeInto(Strip(merged \o <<" ">> \o trimmed_part),
                            Tail(parts))

\* _merge_transcript_parts
MergeTranscriptParts(parts) ==
    LET cleaned_parts ==
            SelectSeq([i \in 1..Len(parts) |-> Strip(parts[i])],
                      LAMBDA part : part # <<>>)
    IN  IF cleaned_parts = <<>> THEN <<>>
        ELSE IF Len(cleaned_parts) = 1 THEN cleaned_parts[1]
        ELSE MergeInto(cleaned_parts[1], Tail(cleaned_parts))

\* transcripts of two adjacent chunks

MergeLefts ==
    {<<"u", "s", "e", " ", "t", "h", "e", " ", "w", "e", "l", "l", "-", "k", "n", "o", "w", "n", " ", "p", "a", "t", "h">>,
    <<"w", "e", " ", "s", "a", "w", " ", "t", "h", "e", " ", "r", "e", "d", " ", "c", "a", "r", " ", "g", "o">>,
    <<"s", "t", "o", "p", ".", " ", "i", "t", " ", "i", "s", " ", "a", " ", "g", "o", "o", "d", " ", "d", "a", "y">>,
    <<"I", "t", " ", "i", "s", " ", "a", " ", "g", "o", "o", "d", " ", "d", "a", "y", ",", " ", "y", "e", "s">>,
    <<"o", "n", "e", " ", "t", "w", "o", " ", "t", "h", "r", "e", "e">>,
    <<>>,
    <<"s", "o", " ", "w", "e", " ", "u", "s", "e", " ", "t", "h", "e", " ", "r", "e", "d", " ", "c", "a", "r">>,
    <<"u", "s", "e", " ", "t", "h", "e", " ", "w", "e", "l", "l", " ", "k", "n", "o", "w", "n", " ", "p", "a", "t", "h">>}

MergeRights ==
    {<<"t", "h", "e", " ", "w", "e", "l", "l", "-", "k", "n", "o", "w", "n", " ", "p", "a", "t", "h", " ", "n", "o", "w", " ", "w", "o", "r", "k", "s">>,
    <<"s", "a", "w", " ", "t", "h", "e", " ", "r", "e", "d", " ", "c", "a", "r", " ", "g", "o", " ", "h", "o", "m", "e", " ", "n", "o", "w">>,
    <<"i", "t", " ", "i", "s", " ", "a", " ", "g", "o", "o", "d", " ", "d", "a", "y", ",", " ", "n", "o", "w", " ", "r", "e", "s", "t">>,
    <<"i", "t", " ", "i", "s", " ", "a", " ", "g", "o", "o", "d", " ", "d", "a", "y", ",", " ", "y", "e", "s", " ", "a", "n", "d", " ", "n", "o">>,
    <<"t", "h", "e", " ", "r", "e", "d", " ", "c", "a", "r">>,
    <<"T", "h", "e", " ", "W", "e", "l", "l", " ", "K", "n", "o", "w", "n", " ", "P", "a", "t", "h", " ", "i", "s", " ", "h", "e", "r", "e">>,
    <<" ", " ">>}

InitMergeTranscriptParts ==
    /\ AppIdle
    /\ MachinesIdle
    /\ fn_args \in {[fn |-> "_merge_transcript_parts", parts |-> <<l, r>>] :
                        l \in MergeLefts, r \in MergeRights}
    /\ fn_ret = NoCall

CallMergeTranscriptParts ==
    /\ fn_args.fn = "_merge_transcript_parts"
    /\ fn_ret = NoCall
    /\ fn_ret' = [fn |-> "_merge_transcript_parts",
                  merged |-> MergeTranscriptParts(fn_args.parts)]
    /\ UNCHANGED <<appVars, smVars, fn_args>>

SpecMergeTranscriptParts ==
    InitMergeTranscriptParts /\ [][CallMergeTranscriptParts]_vars

\* C16: the word tokens of the merged text of two adjacent chunk transcripts
\* are the left part's tokens followed by the right part's tokens from
\* position k on, k being their token overlap: the overlap appears once and
\* no right-side word outside it is lost, also when whitespace-separated
\* tokens contain punctuation or hyphens.
C16_MergeDropsExactlyTheOverlap ==
    (fn_ret # NoCall /\ fn_args.fn = "_merge_transcript_parts")
    => LET L == WordTokens(fn_args.parts[1])
           R == WordTokens(fn_args.parts[2])
           k == FindTokenOverlap(L, R)
       IN  WordTokens(fn_ret.merged) = L \o SubSeq(R, k + 1, Len(R))

\* -------------------------------------------- _split_for_long_transcription
sample_rate == 16000
LONG_AUDIO_CHUNK_THRESHOLD_S == 75
\* int(_LONG_AUDIO_CHUNK_S * sample_rate), 42.0 s
chunk_samples == 672000
\* int(_LONG_AUDIO_CHUNK_OVERLAP_S * sample_rate), 1.2 s
overlap_samples == 19200
\* int(_LONG_AUDIO_MIN_FINAL_CHUNK_S * sample_rate), 12.0 s
min_final_chunk_samples == 192000
frame_size == 320
window_samples == 8000

stride == Max(chunk_samples - overlap_samples, sample_rate)

\* where the quietest frame of the window lies is a property of the audio:
\* the first frame (also when all frames are equally loud), the last frame,
\* or no frame at all when no rms is below infinity, which keeps best_idx at
\* target_idx
SplitChoices == {"first", "last", "none"}

\* _find_best_split_point
FindBestSplitPoint(total, target_idx, quietest) ==
    LET lo == Max(target_idx - window_samples, 0)
        hi == Min(target_idx + window_samples, total)
        frames == (hi - lo) \div frame_size
        best_idx == CASE quietest = "first" -> lo
                      [] quietest = "last" -> lo + (frames - 1) * frame_size
                      [] OTHER -> target_idx
    IN  IF hi - lo < frame_size THEN Max(0, Min(target_idx, total))
        ELSE Max(0, Min(best_idx, total))

\* "if 0 < remaining < min_final_chunk_samples: end = total"
TailIsShort_Never(remaining) == FALSE

TailIsShort(remaining) == 0 < remaining /\ remaining < min_final_chunk_samples

\* the while loop that fills boundaries; quiet[i] tells where the quietest
\* frame around the i-th raw boundary lies
RECURSIVE SplitBoundaries(_, _, _, _)
SplitBoundaries(total, pos, quiet, boundaries) ==
    IF ~(pos < total) THEN boundaries
    ELSE LET raw_end == Min(pos + chunk_samples, total)
             remaining == total - raw_end
             full_end == IF TailIsShort(remaining) THEN total ELSE raw_end
             i == (Len(boundaries) % Len(quiet)) + 1
             end == IF full_end < total
                    THEN FindBestSplitPoint(total, full_end, quiet[i])
                    ELSE full_end
         IN  IF end >= total THEN Append(boundaries, end)
             ELSE SplitBoundaries(total, pos + stride, quiet,
                                  Append(boundaries, end))

\* the for loop that cuts the chunks: each is audio[start:end]
RECURSIVE SplitChunks(_, _, _, _)
SplitChunks(total, start, boundaries, chunks) ==
    IF boundaries = <<>> THEN chunks
    ELSE LET end == Head(boundaries)
             cut == Append(chunks, [start |-> start, end |-> end])
         IN  IF end >= total THEN cut
             ELSE SplitChunks(total, Max(end - overlap_samples, start + 1),
                              Tail(boundaries), cut)

\* _split_for_long_transcription, for an audio of total samples
SplitForLongTranscription(total, quiet) ==
    IF total <= chunk_samples THEN <<[start |-> 0, end |-> total]>>
    ELSE SplitChunks(total, 0, SplitBoundaries(total, 0, quiet, <<>>), <<>>)

\* audio sizes from 75 s on, every 0.2 s, exact, one sample and almost 0.2 s
\* longer; _transcribe_adaptive splits no shorter audio
MaxAudioSeconds == 140
SizeStep == sample_rate \div 5

AudioSizes ==
    {LONG_AUDIO_CHUNK_THRESHOLD_S * sample_rate + j * SizeStep + d :
        j \in 0..((MaxAudioSeconds - LONG_AUDIO_CHUNK_THRESHOLD_S) * 5 - 1),
        d \in {0, 1, SizeStep - 1}}

InitSplit ==
    /\ AppIdle
    /\ MachinesIdle
    /\ fn_args \in {[fn |-> "_split_for_long_transcription",
                     total |-> total, quiet |-> quiet] :
                        total \in AudioSizes,
                        quiet \in [1..3 -> SplitChoices]}
    /\ fn_ret = NoCall

CallSplit ==
    /\ fn_args.fn = "_split_for_long_transcription"
    /\ fn_ret = NoCall
    /\ fn_ret' = [fn |-> "_split_for_long_transcription",
                  chunks |-> SplitForLongTranscription(fn_args.total,
                                                       fn_args.quiet)]
    /\ UNCHANGED <<appVars, smVars, fn_args>>

SpecSplit == InitSplit /\ [][CallSplit]_vars

\* C17: for every audio of at least 75 s the split returns, with more than
\* one chunk; every sample lies in a chunk (the first chunk starts at 0, the
\* last ends at the end of the audio, none is empty and none starts after
\* the end of the one before); the chunks are in time order and each next
\* one starts inside the previous one; the final chunk is at least 12 s long.
C17_ChunksCoverAndOverlap ==
    (fn_ret # NoCall /\ fn_args.fn = "_split_for_long_transcription"
        /\ fn_args.total >= 75 * 16000)
    => LET chunks == fn_ret.chunks
           n == Len(chunks)
       IN  /\ n > 1
           /\ n <= fn_args.total \div (12 * 16000)
           /\ chunks[1].start = 0
           /\ chunks[n].end = fn_args.total
           /\ \A i \in 1..n : chunks[i].start < chunks[i].end
           /\ \A i \in 1..(n - 1) :
                /\ chunks[i].start < chunks[i + 1].start
                /\ chunks[i + 1].start < chunks[i].end
                /\ chunks[i].end < chunks[i + 1].end
           /\ chunks[n].end - chunks[n].start >= 12 * 16000

\* an audio was cut into three chunks: its tail past the third raw boundary,
\* shorter than 12 s, was given to the third chunk
C17_Witness ==
    /\ fn_ret # NoCall
    /\ fn_args.fn = "_split_for_long_transcription"
    /\ Len(fn_ret.chunks) = 3
    /\ fn_args.total - (2 * stride + chunk_samples) \in 1..(12 * 16000 - 1)

\* ------------------------------------------------------------ AudioCapture
\* The callback thread of the audio library and the thread that calls stop
\* take their steps in any order. A block is known by its number, the
\* waveform by the numbers of the blocks it is made of.
MaxBlocks == 4
MaxRecordings == 2

\* Queue.get, get_nowait: the oldest block, and the queue without it
Dequeue_Newest(queue) ==
    [item |-> queue[Len(queue)], rest |-> SubSeq(queue, 1, Len(queue) - 1)]

Dequeue(queue) == [item |-> Head(queue), rest |-> Tail(queue)]

\* _on_recording_start: "self.audio.drain()"
CaptureDrain ==
    /\ capture.pc \in {"idle", "returned"}
    /\ capture.recordings < MaxRecordings
    /\ capture' = [capture EXCEPT !.pc = "drained", !.queue = <<>>,
                                  !.sent = <<>>]
    /\ UNCHANGED <<appVars, fnVars, stt, trailing, vad>>

\* _on_recording_start: "self.audio.start()"
CaptureStart ==
    /\ capture.pc = "drained"
    /\ capture' = [capture EXCEPT !.pc = "recording", !.stream = "active",
                                  !.open = @ + 1, !.recordings = @ + 1]
    /\ UNCHANGED <<appVars, fnVars, stt, trailing, vad>>

\* _callback, on the audio thread, while a stream is open
AudioCallback ==
    /\ capture.open > 0
    /\ capture.blocks < MaxBlocks
    /\ capture' = [capture EXCEPT
            !.blocks = @ + 1,
            !.queue = Append(@, capture.blocks + 1),
            !.sent = Append(@, capture.blocks + 1)]
    /\ UNCHANGED <<appVars, fnVars, stt, trailing, vad>>

\* _on_recording_stop: "if not self.audio.is_active(): return", then stop:
\* "chunks = []"
StopBegin ==
    /\ capture.pc = "recording"
    /\ capture.stream = "active"
    /\ capture' = [capture EXCEPT !.pc = "drain1", !.chunks = <<>>]
    /\ UNCHANGED <<appVars, fnVars, stt, trailing, vad>>

\* _drain_queue_nowait: one get_nowait that finds a block
DrainGet ==
    /\ capture.pc \in {"drain1", "drain2"}
    /\ capture.queue # <<>>
    /\ capture' = [capture EXCEPT
            !.chunks = Append(@, Dequeue(capture.queue).item),
            !.queue = Dequeue(capture.queue).rest]
    /\ UNCHANGED <<appVars, fnVars, stt, trailing, vad>>

\* the first _drain_queue_nowait meets Empty; the stream is not None
DrainEmpty ==
    /\ capture.pc = "drain1"
    /\ capture.queue = <<>>
    /\ capture' = [capture EXCEPT !.pc = "trailing"]
    /\ UNCHANGED <<appVars, fnVars, stt, trailing, vad>>

\* _collect_trailing_chunks: a get that finds a block; the loop goes on, or
\* breaks when the block is the third quiet one
TrailingGet ==
    /\ capture.pc = "trailing"
    /\ capture.queue # <<>>
    /\ \E break \in BOOLEAN :
        capture' = [capture EXCEPT
            !.chunks = Append(@, Dequeue(capture.queue).item),
            !.queue = Dequeue(capture.queue).rest,
            !.pc = IF break THEN "closing" ELSE "trailing"]
    /\ UNCHANGED <<appVars, fnVars, stt, trailing, vad>>

\* _collect_trailing_chunks: the deadline has passed, or the third quiet
\* poll met Empty
TrailingBreak ==
    /\ capture.pc = "trailing"
    /\ capture' = [capture EXCEPT !.pc = "closing"]
    /\ UNCHANGED <<appVars, fnVars, stt, trailing, vad>>

\* "self._stream.stop(); self._stream.close()", then "self._stream = None":
\* no callback of this stream runs after stop has returned
StreamClose ==
    /\ capture.pc = "closing"
    /\ capture' = [capture EXCEPT !.pc = "drain2", !.stream = "none",
                                  !.open = @ - 1]
    /\ UNCHANGED <<appVars, fnVars, stt, trailing, vad>>

\* the library raises in stop or close: "except Exception", then
\* "self._stream = None", and the stream is left open
StreamCloseFails ==
    /\ capture.pc = "closing"
    /\ capture' = [capture EXCEPT !.pc = "drain2", !.stream = "none"]
    /\ UNCHANGED <<appVars, fnVars, stt, trailing, vad>>

\* the second _drain_queue_nowait meets Empty: "return np.concatenate(chunks)"
StopReturn ==
    /\ capture.pc = "drain2"
    /\ capture.queue = <<>>
    /\ capture' = [capture EXCEPT !.pc = "returned", !.waveform = capture.chunks]
    /\ UNCHANGED <<appVars, fnVars, stt, trailing, vad>>

InitCapture ==
    /\ AppIdle
    /\ MachinesIdle
    /\ fn_args = NoCall
    /\ fn_ret = NoCall

NextCapture ==
    \/ CaptureDrain
    \/ CaptureStart
    \/ AudioCallback
    \/ StopBegin
    \/ DrainGet
    \/ DrainEmpty
    \/ TrailingGet
    \/ TrailingBreak
    \/ StreamClose
    \/ StreamCloseFails
    \/ StopReturn

SpecCapture == InitCapture /\ [][NextCapture]_vars

\* C18: when stop has returned and the stream was closed, the waveform is
\* the blocks the callback enqueued since the last drain, in the order of
\* their arrival, each once, whatever the interleaving of the callback
\* thread with stop.
C18_WaveformIsEveryBlockInOrder ==
    (capture.pc = "returned" /\ capture.open = 0)
    => capture.waveform = capture.sent

\* the second recording has been stopped and its stream closed, no stream
\* is left open, and the waveform holds three blocks or more
C18_Witness ==
    /\ capture.pc = "returned"
    /\ capture.open = 0
    /\ capture.recordings = 2
    /\ Len(capture.waveform) >= 3

\* ------------------------------------------------- the order of a dictation
\* how far the thread of a dictation has come
StageOf(pc) ==
    CASE pc = "unborn" -> 0
      [] pc = "pipeline" -> 1
      [] pc = "ins_save" -> 2
      [] pc = "ins_gen" -> 3
      [] pc = "ins_set" -> 4
      [] pc = "ins_paste" -> 5
      [] pc \in {"ins_except", "ins_restore"} -> 6
      [] pc = "ins_sync" -> 7
      [] pc = "release" -> 8
      [] OTHER -> 9

\* C19: the events of one dictation come in the order capture-stop,
\* pipeline, paste, clipboard-restore. The worker is spawned in the step
\* of _on_recording_stop that closes an open stream and has the waveform;
\* its thread only moves forward; pipeline.process runs in the spawned
\* worker and the insert is entered only when process has returned; the
\* paste keystroke is posted by the insert after that; the restore, in the
\* insert or by its timer, is written only after the paste keystroke.
C19_DictationIsOrdered ==
    [][\A w \in Workers :
        /\ worker'[w].pc # worker[w].pc
            => StageOf(worker'[w].pc) > StageOf(worker[w].pc)
        /\ (worker[w].pc = "unborn" /\ worker'[w].pc # "unborn")
            => /\ worker'[w].pc = "pipeline"
               /\ stream_active /\ ~stream_active'
               /\ stop_event'.kind = "stop" /\ ~stop_event'.cancelled
               /\ stop_event'.size >= MIN_AUDIO_SAMPLES
        /\ (proc_event'.kind # "none" /\ proc_event'.call = w)
            => worker[w].pc = "pipeline"
        /\ (worker[w].pc = "pipeline" /\ worker'[w].pc # "pipeline")
            => proc_event'.kind # "none" /\ proc_event'.call = w
        /\ (worker[w].pc = "pipeline" /\ worker'[w].pc \in InsertPcs)
            => proc_event'.kind = "returned" /\ proc_event'.result # EmptyText
        /\ (clip_event'.kind = "paste" /\ clip_event'.call = w)
            => worker[w].pc = "ins_paste" /\ worker'[w].pc = "ins_restore"
        /\ (worker[w].pc # "ins_restore" /\ worker'[w].pc = "ins_restore")
            => clip_event'.kind = "paste" /\ clip_event'.call = w
        /\ (timer[w].pc = "off" /\ timer'[w].pc # "off")
            => worker[w].pc = "ins_restore"
        /\ (clip_event'.kind = "restore" /\ clip_event'.call = w)
            => \/ worker[w].pc = "ins_sync"
               \/ timer[w].pc = "safe" /\ StageOf(worker[w].pc) > 6
    ]_vars

\* the second dictation has gone through all its stages: its restore timer
\* has just written the clipboard back, after its thread has ended
C19_Witness ==
    /\ clip_event.kind = "restore"
    /\ clip_event.call = 2
    /\ worker[2].pc = "done"
    /\ timer[2].pc = "done"
    /\ ~stream_active

\* ------------------------------------------------------------ STT fallback
\* An engine is known by its model name and by the number of its
\* construction; engine 0 is the one of TranscriptionPipeline.__init__.
WHISPER_SAFE_FALLBACK_MODEL == "mlx-community/whisper-large-v3-turbo"
MaxSttCalls == 2

\* _dedupe_models: the first occurrence of each name
RECURSIVE DedupeModels(_)
DedupeModels(models) ==
    IF models = <<>> THEN <<>>
    ELSE LET unique == DedupeModels(SubSeq(models, 1, Len(models) - 1))
             model == models[Len(models)]
         IN  IF \E i \in 1..Len(unique) : unique[i] = model THEN unique
             ELSE Append(unique, model)

\* _stt_fallback_models
SttFallbackModels(s, for_warm_up) ==
    LET primary_model == s.stt_model
        max_accuracy_model == s.max_accuracy_stt_model
        active_model == s.active.model_name
        max_mode_uncached ==
            /\ for_warm_up
            /\ s.cleanup_mode = "max_accuracy"
            /\ active_model = max_accuracy_model
            /\ max_accuracy_model \notin s.cached
            /\ primary_model \in s.cached
        models == IF max_mode_uncached
                  THEN <<primary_model, active_model, max_accuracy_model>>
                  ELSE <<active_model, primary_model, max_accuracy_model>>
    IN  DedupeModels(Append(models, WHISPER_SAFE_FALLBACK_MODEL))

\* "if index == 0 and self.stt.model_name == model_name: engine = self.stt"
UsesActiveEngine_Never(s, index, model_name) == FALSE

UsesActiveEngine(s, index, model_name) ==
    index = 1 /\ s.active.model_name = model_name

\* the engine the loop takes for candidates[index]: self.stt, or a new
\* WhisperEngine
EngineFor(s, index) ==
    IF UsesActiveEngine(s, index, s.candidates[index]) THEN s.active
    ELSE [model_name |-> s.candidates[index], id |-> s.engines]

\* the configurations a pipeline is constructed with, and which of the
\* models are in the local cache
SttInits ==
    {[SttIdle EXCEPT !.stt_model = primary, !.max_accuracy_stt_model = max,
                     !.cleanup_mode = cleanup_mode, !.cached = cached,
                     !.active = [model_name |-> IF cleanup_mode = "max_accuracy"
                                                THEN max ELSE primary,
                                 id |-> 0],
                     !.before = [model_name |-> IF cleanup_mode = "max_accuracy"
                                                THEN max ELSE primary,
                                 id |-> 0]] :
        primary \in {"primary", WHISPER_SAFE_FALLBACK_MODEL},
        max \in {"max", "primary"},
        cleanup_mode \in {"standard", "max_accuracy"},
        cached \in SUBSET {"primary", "max"}}

\* _warm_up_stt_with_fallback and _transcribe_with_fallback are entered:
\* "errors = []", "candidates = self._stt_fallback_models(...)"
SttBegin(call) ==
    /\ stt.pc \in {"idle", "returned", "raised"}
    /\ stt.calls < MaxSttCalls
    /\ stt' = [stt EXCEPT
            !.pc = "loop", !.call = call, !.calls = @ + 1,
            !.candidates = SttFallbackModels(stt, call = "warm_up"),
            !.index = 1, !.tried = <<>>, !.constructed = <<>>,
            !.errors = <<>>, !.kinds = <<>>,
            !.error = [summary |-> <<>>, cause |-> <<>>],
            !.before = stt.active]
    /\ UNCHANGED <<appVars, fnVars, capture, trailing, vad>>

\* one turn of the loop in which warm_up and, for a transcription,
\* transcribe return: the engine becomes self.stt if it is not, and the
\* call returns
SttCandidateSucceeds ==
    /\ stt.pc = "loop"
    /\ stt.index <= Len(stt.candidates)
    /\ LET engine == EngineFor(stt, stt.index)
       IN  stt' = [stt EXCEPT
                !.pc = "returned",
                !.tried = Append(@, stt.candidates[stt.index]),
                !.constructed = IF engine = stt.active THEN @
                                ELSE Append(@, engine.model_name),
                !.engines = IF engine = stt.active THEN @ ELSE @ + 1,
                !.active = engine]
    /\ UNCHANGED <<appVars, fnVars, capture, trailing, vad>>

\* the exception classes warm_up and transcribe raise, type(exc).__name__
ErrorKinds == {"RuntimeError", "OSError"}

\* one turn of the loop in which warm_up or transcribe raises: the error is
\* kept with the model name, "errors.append((model_name, exc))", and the
\* loop goes to the next candidate
SttCandidateFails ==
    /\ stt.pc = "loop"
    /\ stt.index <= Len(stt.candidates)
    /\ \E kind \in ErrorKinds :
       LET engine == EngineFor(stt, stt.index)
       IN  stt' = [stt EXCEPT
                !.index = @ + 1,
                !.tried = Append(@, stt.candidates[stt.index]),
                !.errors = Append(@, stt.candidates[stt.index]),
                !.kinds = Append(@, kind),
                !.constructed = IF engine = stt.active THEN @
                                ELSE Append(@, engine.model_name),
                !.engines = IF engine = stt.active THEN @ ELSE @ + 1]
    /\ UNCHANGED <<appVars, fnVars, capture, trailing, vad>>

\* "from errors[-1][1]": the exception the raised error wraps
LastError_First(errors) == <<errors[1]>>

LastError(errors) == <<errors[Len(errors)]>>

\* the pairs (model_name, exc) of the list errors
ErrorPairs(s) ==
    [i \in 1..Len(s.errors) |-> [model |-> s.errors[i], kind |-> s.kinds[i]]]

\* the loop has run out of candidates: "raise RuntimeError(...) from
\* errors[-1][1]", whose message names each model with the class of its
\* exception
SttAllFailed ==
    /\ stt.pc = "loop"
    /\ stt.index > Len(stt.candidates)
    /\ stt' = [stt EXCEPT
            !.pc = "raised",
            !.error = [summary |-> ErrorPairs(stt),
                       cause |-> LastError(ErrorPairs(stt))]]
    /\ UNCHANGED <<appVars, fnVars, capture, trailing, vad>>

InitStt ==
    /\ AppIdle
    /\ capture = CaptureInit
    /\ trailing = TrailingIdle
    /\ vad = VadIdle
    /\ stt \in SttInits
    /\ fn_args = NoCall
    /\ fn_ret = NoCall

NextStt ==
    \/ \E call \in {"warm_up", "transcribe"} : SttBegin(call)
    \/ SttCandidateSucceeds
    \/ SttCandidateFails
    \/ SttAllFailed

SpecStt == InitStt /\ [][NextStt]_vars

C21_AllFailedRaisesAndKeepsEngine ==
    (stt.pc = "raised" /\ stt.call = "transcribe")
    => LET n == Len(stt.candidates)
       IN  /\ n >= 1
           /\ stt.tried = stt.candidates
           /\ \A i, j \in 1..n : stt.tried[i] = stt.tried[j] => i = j
           /\ Len(stt.error.summary) = n
           /\ \A i \in 1..n :
                /\ stt.error.summary[i].model = stt.candidates[i]
                /\ stt.error.summary[i].kind = stt.kinds[i]
           /\ stt.error.cause = <<[model |-> stt.candidates[n],
                                   kind |-> stt.kinds[n]]>>
           /\ stt.active = stt.before

\* a transcription has failed with three candidates, the first with another
\* class of error than the last, after an earlier call had switched engines
C21_Witness ==
    /\ stt.pc = "raised"
    /\ stt.call = "transcribe"
    /\ Len(stt.candidates) = 3
    /\ stt.kinds[1] # stt.kinds[3]
    /\ stt.active.id > 0

\* ------------------------------------------------------- a failed insert
\* the step in which insert of dictation w returns False: from the
\* accessibility check, or from the except branch
InsertFails(w) ==
    /\ worker[w].pc \in {"ins_paste", "ins_except"}
    /\ worker'[w].pc = "release"

\* C22: in the step in which insert returns failure, the clipboard holds
\* the inserted text (unless the user has copied something since the call
\* wrote it), the step pastes and restores nothing, and no restore timer of
\* the call is or gets armed; when the failure is the accessibility check,
\* no paste keystroke is synthesized and last_error is the
\* accessibility-required message.
C22_FailedInsertKeepsText ==
    [][\A w \in Workers :
        /\ InsertFails(w)
            => /\ clip_src'.kind # "user" => clipboard' = worker[w].result
               /\ clip_event'.kind = "none"
               /\ timer[w].pc = "off" /\ timer'[w].pc = "off"
        /\ (InsertFails(w) /\ worker[w].pc = "ins_paste")
            => /\ clip_event'.kind # "paste"
               /\ last_error'
                    = "Accessibility permission required for paste."
    ]_vars

\* ------------------------------------------ process: the gates before cleanup

PROMPT_ECHO_FRAGMENTS ==
    {<<"t", "r", "a", "n", "s", "c", "r", "i", "b", "e", " ", "c", "l", "e", "a", "r", "l", "y">>,
    <<"n", "a", "t", "u", "r", "a", "l", " ", "p", "u", "n", "c", "t", "u", "a", "t", "i", "o", "n">>,
    <<"s", "o", "f", "t", "w", "a", "r", "e", " ", "d", "e", "v", "e", "l", "o", "p", "m", "e", "n", "t", " ", "d", "i", "c", "t", "a", "t", "i", "o", "n">>,
    <<"c", "l", "e", "a", "n", ",", " ", "w", "e", "l", "l", "-", "p", "u", "n", "c", "t", "u", "a", "t", "e", "d", " ", "t", "r", "a", "n", "s", "c", "r", "i", "p", "t", "i", "o", "n">>,
    <<"s", "o", "f", "t", "w", "a", "r", "e", " ", "d", "e", "v", "e", "l", "o", "p", "m", "e", "n", "t", " ", "s", "e", "s", "s", "i", "o", "n">>,
    <<"s", "o", "f", "t", "w", "a", "r", "e", "e", "n", "t", "w", "i", "c", "k", "l", "u", "n", "g", "s", "s", "i", "t", "z", "u", "n", "g">>,
    <<"k", "l", "a", "r", " ", "u", "n", "d", " ", "k", "o", "r", "r", "e", "k", "t", " ", "t", "r", "a", "n", "s", "k", "r", "i", "b", "i", "e", "r", "e", "n">>}

\* "if len(raw_stripped.split()) < 15: if any(frag in raw_lower for frag in
\* _PROMPT_ECHO_FRAGMENTS)"
IsPromptEcho(raw_stripped) ==
    /\ WordCount(raw_stripped) < 15
    /\ \E frag \in PROMPT_ECHO_FRAGMENTS :
        \E i \in 1..Len(raw_stripped) : HasLiteralAt(raw_stripped, i, frag)

\* the default of vad_threshold, in percent
vad_threshold == 50

\* what the detector would say of a waveform: no test of it is part of
\* process
HasSpeech(audio) == audio.speech_probability > vad_threshold

\* process, from the waveform to the cleanup: the waveform is trimmed and
\* transcribed, and the transcript alone decides whether process returns ""
\* here: the hallucination blocklist, the prompt echo, the empty transcript
ProcessGate(audio, raw) ==
    \/ MatchesHallucination(Strip(raw))
    \/ IsPromptEcho(Strip(raw))
    \/ Strip(raw) = <<>>

\* process with cleanup_mode "fast": the gates, then clean, the final clean
\* and _preserve_completeness
ProcessFast(audio, raw, programmer_mode) ==
    IF ProcessGate(audio, raw) THEN <<>>
    ELSE ProcessPlain(raw, programmer_mode).text

S_TranscribeClearly ==
    <<"T", "r", "a", "n", "s", "c", "r", "i", "b", "e", " ", "c", "l", "e",
      "a", "r", "l", "y", ".">>

\* speech probabilities of the trimmed waveform, in percent
SpeechProbabilities == {10, 50, 51, 90}

\* what the speech-to-text engine makes of the waveform: a decoder given
\* silence or noise still produces words
GateRawTranscripts ==
    RawTranscripts \cup {S_TranscribeClearly} \cup PlainTexts(2)

InitProcessGate ==
    /\ AppIdle
    /\ MachinesIdle
    /\ fn_args \in
         [fn : {"process_fast"},
          audio : [speech_probability : SpeechProbabilities],
          raw : GateRawTranscripts, programmer_mode : BOOLEAN]
    /\ fn_ret = NoCall

CallProcessFast ==
    /\ fn_args.fn = "process_fast"
    /\ fn_ret = NoCall
    /\ fn_ret' = [fn |-> "process_fast",
                  text |-> ProcessFast(fn_args.audio, fn_args.raw,
                                       fn_args.programmer_mode)]
    /\ UNCHANGED <<appVars, smVars, fn_args>>

SpecProcessGate == InitProcessGate /\ [][CallProcessFast]_vars

\* C23: when the detector finds no speech in the audio (a speech
\* probability not above the threshold), process returns the empty string.
C23_NoSpeechReturnsEmpty ==
    (fn_ret # NoCall /\ fn_args.fn = "process_fast"
        /\ ~HasSpeech(fn_args.audio))
    => fn_ret.text = <<>>

\* ------------------------------- AudioCapture._collect_trailing_chunks

TRAILING_CAPTURE_MS == 280
MIN_TRAILING_CAPTURE_MS == 130
QUIET_BLOCKS_TO_STOP == 3
\* max(self.block_size / self.sample_rate, 0.01), in ms: 512 samples at 16 kHz
poll_timeout == 32

\* _default_trailing_capture_ms, for a recording that has lasted duration_s
DefaultTrailingCaptureMs(duration_s) ==
    IF duration_s >= 180 THEN 1100
    ELSE IF duration_s >= 120 THEN 960
    ELSE IF duration_s >= 60 THEN 820
    ELSE IF duration_s >= 30 THEN 700
    ELSE IF duration_s >= 14 THEN 520
    ELSE IF duration_s >= 8 THEN 420
    ELSE IF duration_s >= 4 THEN 340
    ELSE TRAILING_CAPTURE_MS

\* _min_trailing_capture_ms
MinTrailingCaptureMs(duration_s) ==
    IF duration_s >= 120 THEN 420
    ELSE IF duration_s >= 60 THEN 340
    ELSE IF duration_s >= 20 THEN 260
    ELSE MIN_TRAILING_CAPTURE_MS

\* bounds: the clock advances in steps of TrailTickMs up to MaxTrailMs, and
\* the callback enqueues at most MaxTrailBlocks blocks during the loop
TrailTickMs == 40
MaxTrailMs == 440
MaxTrailBlocks == 3
\* how long the recording had lasted when the key was released, in seconds
TrailDurations == {2, 5}
\* stop(trailing_capture_ms=...): <<>> for None
TrailOverrides == {<<>>, <<0>>, <<100>>}

\* a block by its RMS against _silence_rms_threshold(): "quiet" at or below
\* it, "loud" above it, "empty" for a block of no samples
BlockKinds == {"quiet", "loud", "empty"}

FloorElapsed_Always(t, min_trailing_capture_ms) == TRUE

\* "(t - start) * 1000.0 >= min_trailing_capture_ms", start being 0
FloorElapsed(t, min_trailing_capture_ms) == t >= min_trailing_capture_ms

\* "quiet_blocks += 1; if quiet_blocks >= self.QUIET_BLOCKS_TO_STOP: break":
\* the loop after the counter test at time t
CountQuiet(s, t) ==
    IF FloorElapsed(t, s.floor)
    THEN IF s.quiet_blocks + 1 >= QUIET_BLOCKS_TO_STOP
         THEN [s EXCEPT !.quiet_blocks = @ + 1, !.pc = "done",
                        !.reason = "quiet"]
         ELSE [s EXCEPT !.quiet_blocks = @ + 1, !.pc = "top"]
    ELSE [s EXCEPT !.pc = "top"]

\* time.monotonic() advances
TrailTick ==
    /\ trailing.pc \notin {"idle", "done"}
    /\ trailing.clock < MaxTrailMs
    /\ trailing' = [trailing EXCEPT !.clock = @ + TrailTickMs]
    /\ UNCHANGED <<appVars, fnVars, capture, stt, vad>>

\* _callback: self.queue.put(chunk), while the stream is still open
TrailCallback ==
    /\ trailing.pc \notin {"idle", "done"}
    /\ Len(trailing.arrived) < MaxTrailBlocks
    /\ \E kind \in BlockKinds :
        LET block == [id |-> Len(trailing.arrived) + 1, kind |-> kind]
        IN  trailing' = [trailing EXCEPT !.queue = Append(@, block),
                                         !.arrived = Append(@, block)]
    /\ UNCHANGED <<appVars, fnVars, capture, stt, vad>>

\* stop: the budget and the floor, then _collect_trailing_chunks up to the
\* loop; "if trailing_capture_ms <= 0: return []"
CollectBegin ==
    /\ trailing.pc = "idle"
    /\ \E duration_s \in TrailDurations, override \in TrailOverrides :
        LET trailing_capture_ms ==
                IF override = <<>> THEN DefaultTrailingCaptureMs(duration_s)
                ELSE override[1]
        IN  trailing' =
                [trailing EXCEPT
                    !.pc = IF trailing_capture_ms <= 0 THEN "done" ELSE "top",
                    !.reason = IF trailing_capture_ms <= 0 THEN "no budget"
                               ELSE "none",
                    !.deadline = trailing_capture_ms,
                    !.floor = MinTrailingCaptureMs(duration_s)]
    /\ UNCHANGED <<appVars, fnVars, capture, stt, vad>>

\* "now = time.monotonic(); if now >= deadline: break"
CollectTop ==
    /\ trailing.pc = "top"
    /\ trailing' =
        IF trailing.clock >= trailing.deadline
        THEN [trailing EXCEPT !.now = trailing.clock, !.pc = "done",
                              !.reason = "deadline"]
        ELSE [trailing EXCEPT !.now = trailing.clock, !.pc = "poll"]
    /\ UNCHANGED <<appVars, fnVars, capture, stt, vad>>

\* "timeout = min(poll_timeout, deadline - now)", positive here, and the
\* call of self.queue.get(timeout=timeout)
CollectPoll ==
    /\ trailing.pc = "poll"
    /\ LET timeout == Min(poll_timeout, trailing.deadline - trailing.now)
       IN  trailing' = [trailing EXCEPT !.pc = "get",
                                        !.wait_until = trailing.clock + timeout]
    /\ UNCHANGED <<appVars, fnVars, capture, stt, vad>>

\* queue.get returns a block: "chunks.append(chunk)", then the counter by
\* the block's RMS
CollectGet ==
    /\ trailing.pc = "get"
    /\ trailing.queue # <<>>
    /\ LET chunk == Head(trailing.queue)
           kept == [trailing EXCEPT !.queue = Tail(@),
                                    !.chunks = Append(@, chunk)]
       IN  trailing' =
            IF chunk.kind = "empty" THEN [kept EXCEPT !.pc = "top"]
            ELSE IF chunk.kind = "quiet" THEN CountQuiet(kept, kept.clock)
            ELSE [kept EXCEPT !.quiet_blocks = 0, !.pc = "top"]
    /\ UNCHANGED <<appVars, fnVars, capture, stt, vad>>

\* queue.get times out: "except Empty", the counter by the time read at the
\* top of the loop
CollectEmpty ==
    /\ trailing.pc = "get"
    /\ trailing.queue = <<>>
    /\ trailing.clock >= trailing.wait_until
    /\ trailing' = CountQuiet(trailing, trailing.now)
    /\ UNCHANGED <<appVars, fnVars, capture, stt, vad>>

InitTrailing ==
    /\ AppIdle
    /\ MachinesIdle
    /\ fn_args = NoCall
    /\ fn_ret = NoCall

NextTrailing ==
    \/ TrailTick
    \/ TrailCallback
    \/ CollectBegin
    \/ CollectTop
    \/ CollectPoll
    \/ CollectGet
    \/ CollectEmpty

SpecTrailing == InitTrailing /\ [][NextTrailing]_vars

\* the loop of _collect_trailing_chunks ends in this step
TrailingEnds == trailing.pc # "done" /\ trailing'.pc = "done"

\* the loop takes a block from the queue in this step
TrailingTakes == Len(trailing'.chunks) > Len(trailing.chunks)

\* C24: during the trailing capture every block taken from the queue is
\* kept, in the order of arrival; the quiet-block counter goes up only
\* once the minimum floor has elapsed, and a block at or below the silence
\* threshold taken after the floor does raise it by one; the loop ends
\* when the deadline has been reached or in the step in which the counter
\* reaches QUIET_BLOCKS_TO_STOP, it does end in that step and at the first
\* test of the clock after the deadline, and it never ends before the
\* deadline with the floor not yet elapsed.
C24_TrailingCaptureEnds ==
    /\ [](trailing.chunks \o trailing.queue = trailing.arrived)
    /\ [][/\ trailing'.quiet_blocks > trailing.quiet_blocks
                => /\ trailing.clock >= trailing.floor
                   /\ trailing'.quiet_blocks = trailing.quiet_blocks + 1
          /\ (TrailingTakes
                /\ trailing'.chunks[Len(trailing'.chunks)].kind = "quiet"
                /\ trailing.clock >= trailing.floor)
                => trailing'.quiet_blocks = trailing.quiet_blocks + 1
          /\ TrailingEnds
                => \/ trailing'.clock >= trailing'.deadline
                   \/ /\ trailing'.quiet_blocks = QUIET_BLOCKS_TO_STOP
                      /\ trailing.quiet_blocks = QUIET_BLOCKS_TO_STOP - 1
          /\ trailing'.quiet_blocks >= QUIET_BLOCKS_TO_STOP
                => trailing'.pc = "done"
          /\ (trailing.pc = "top" /\ trailing'.pc # "top"
                /\ trailing.clock >= trailing.deadline)
                => trailing'.pc = "done"
          /\ (TrailingEnds /\ trailing'.clock < trailing'.deadline)
                => trailing'.clock >= trailing'.floor
         ]_vars

\* the loop has ended before the deadline on the third quiet count, having
\* kept a quiet block that arrived before the floor and a loud one
C24_Witness ==
    /\ trailing.pc = "done"
    /\ trailing.reason = "quiet"
    /\ trailing.clock < trailing.deadline
    /\ Len(trailing.chunks) = MaxTrailBlocks
    /\ trailing.chunks[1].kind = "quiet"
    /\ trailing.chunks[2].kind = "loud"
    /\ trailing.chunks[3].kind = "quiet"

\* ------------------------------------ VoiceActivityDetector.process_chunk

\* bound: the chunks fed to one detector
MaxVadChunks == 9
\* silence_duration_ms and pre_buffer_ms given to the constructor
SilenceDurations == {40, 64}
PreBufferDurations == {64, 300}

\* deque(maxlen=n).append(x)
DequeAppend(d, x, n) ==
    LET all == Append(d, x)
    IN  IF Len(all) <= n THEN all
        ELSE SubSeq(all, Len(all) - n + 1, Len(all))

OnsetChunks_None(v) == <<>>

\* "if not self.speech_chunks: self.speech_chunks.extend(list(self.pre_buffer))"
OnsetChunks(v) == IF v.speech_chunks = <<>> THEN v.pre_buffer ELSE <<>>

\* process_chunk(chunk) for the chunk at position id of the stream
ProcessChunk(v, id, is_speech) ==
    LET fed == [v EXCEPT !.fed = Append(@, is_speech), !.returned = <<>>]
    IN  IF is_speech
        THEN [fed EXCEPT !.speech_chunks = Append(@ \o OnsetChunks(v), id),
                         !.silence_counter = 0]
        ELSE IF v.speech_chunks # <<>>
        THEN IF v.silence_counter + 1 >= v.silence_limit
             THEN LET audio == Append(v.speech_chunks, id)
                  IN  [fed EXCEPT !.speech_chunks = <<>>,
                                  !.silence_counter = 0,
                                  !.returned = <<audio>>,
                                  !.emitted = Append(@, audio)]
             ELSE [fed EXCEPT !.speech_chunks = Append(@, id),
                              !.silence_counter = @ + 1]
        ELSE [fed EXCEPT !.pre_buffer =
                            DequeAppend(@, id, v.pre_buffer_chunks)]

\* a caller feeds the next chunk of the stream
VadProcessChunk ==
    /\ Len(vad.fed) < MaxVadChunks
    /\ \E is_speech \in BOOLEAN :
        vad' = ProcessChunk(vad, Len(vad.fed) + 1, is_speech)
    /\ UNCHANGED <<appVars, fnVars, capture, stt, trailing>>

\* reset(): the buffers and the counter are cleared
VadReset ==
    /\ vad.since < Len(vad.fed)
    /\ vad' = [vad EXCEPT !.speech_chunks = <<>>, !.silence_counter = 0,
                          !.pre_buffer = <<>>, !.returned = <<>>,
                          !.since = Len(vad.fed)]
    /\ UNCHANGED <<appVars, fnVars, capture, stt, trailing>>

InitVad ==
    /\ AppIdle
    /\ capture = CaptureInit
    /\ stt = SttIdle
    /\ trailing = TrailingIdle
    /\ vad \in {VadNew(s, p) : s \in SilenceDurations, p \in PreBufferDurations}
    /\ fn_args = NoCall
    /\ fn_ret = NoCall

NextVad ==
    \/ VadProcessChunk
    \/ VadReset

SpecVad == InitVad /\ [][NextVad]_vars

\* the position of the chunk on which the latest utterance was returned,
\* or of the latest reset if that came later
LastEnd(v) ==
    IF v.emitted = <<>> THEN v.since
    ELSE LET last == v.emitted[Len(v.emitted)]
         IN  IF last[Len(last)] > v.since THEN last[Len(last)] ELSE v.since

\* the non-speech chunks at the end of the stream, back to the chunk after
\* position from
RECURSIVE TrailingSilence(_, _)
TrailingSilence(flags, from) ==
    IF Len(flags) <= from \/ flags[Len(flags)] THEN 0
    ELSE 1 + TrailingSilence(SubSeq(flags, 1, Len(flags) - 1), from)

\* the positions first..last, in order
Positions(first, last) == [i \in 1..(last - first + 1) |-> first + i - 1]

\* the first speech chunk after position from
FirstSpeech(flags, from) ==
    CHOOSE k \in (from + 1)..Len(flags) :
        flags[k] /\ \A j \in (from + 1)..(k - 1) : ~flags[j]

\* a step that feeds one chunk
VadFeeds == Len(vad'.fed) = Len(vad.fed) + 1

\* C25: process_chunk returns an utterance exactly on the chunk that is the
\* silence_limit-th non-speech chunk in a row after a speech chunk, counted
\* since the previous return or reset; the returned audio is the content of the
\* pre-buffer followed by every chunk from the first speech chunk to this
\* one, and after the return the speech buffer and the counter are empty.
C25_UtteranceOnSilenceLimit ==
    [][VadFeeds =>
        LET flags == vad'.fed
            from == LastEnd(vad)
            run == TrailingSilence(flags, from)
        IN  /\ vad'.returned # <<>>
                <=> (run = vad.silence_limit /\ Len(flags) - run > from)
            /\ vad'.returned # <<>>
                => /\ vad'.returned[1] =
                        vad.pre_buffer
                        \o Positions(FirstSpeech(flags, from), Len(flags))
                   /\ vad'.speech_chunks = <<>>
                   /\ vad'.silence_counter = 0
                   /\ vad'.emitted = Append(vad.emitted, vad'.returned[1])
    ]_vars

\* an utterance has just been returned whose speech was interrupted by a
\* shorter silence, with two chunks of onset audio in front
C25_Witness ==
    /\ vad.returned # <<>>
    /\ vad.silence_limit = 2
    /\ vad.returned[1] = <<1, 2, 3, 4, 5, 6, 7>>
    /\ vad.fed = <<FALSE, FALSE, TRUE, FALSE, TRUE, FALSE, FALSE>>

\* C28: every emitted utterance is a contiguous slice of the stream, which
\* makes the onset audio in front of it the chunks that came right before
\* its first speech chunk, and no chunk is part of two utterances.
C28_UtterancesAreDisjointSlices ==
    /\ \A j \in 1..Len(vad.emitted) :
        \A i \in 1..(Len(vad.emitted[j]) - 1) :
            vad.emitted[j][i + 1] = vad.emitted[j][i] + 1
    /\ \A j, l \in 1..Len(vad.emitted) :
        j # l =>
            \A i \in 1..Len(vad.emitted[j]), k \in 1..Len(vad.emitted[l]) :
                vad.emitted[j][i] # vad.emitted[l][k]

\* ------------------------------------------ process: the refinement step

\* a sentence made of file tags only: _BARE_FILE_TAG_SENTENCE_RE.match
IsBareFileTagSentence(sentence) ==
    LET words == SplitWords(sentence)
    IN  /\ words # <<>>
        /\ \A i \in 1..Len(words) :
            LET w == IF i = Len(words) /\ words[i][Len(words[i])] \in {"!", "?"}
                     THEN SubSeq(words[i], 1, Len(words[i]) - 1)
                     ELSE words[i]
            IN  /\ Len(w) >= 2
                /\ w[1] = "@"
                /\ \A k \in 2..Len(w) : w[k] \in WordChars \cup {".", "/", "-"}

\* _SENTENCE_SPLIT_RE.split(text.strip()): the text is cut at the blanks
\* that follow ".", "!" or "?"
RECURSIVE SplitSentences(_)
SplitSentences(s) ==
    IF \E i \in 2..Len(s) : s[i] \in Whitespace /\ s[i - 1] \in {".", "!", "?"}
    THEN LET i == CHOOSE k \in 2..Len(s) :
                    /\ s[k] \in Whitespace /\ s[k - 1] \in {".", "!", "?"}
                    /\ \A j \in 2..(k - 1) :
                        ~(s[j] \in Whitespace /\ s[j - 1] \in {".", "!", "?"})
         IN  <<SubSeq(s, 1, i - 1)>>
             \o SplitSentences(StripLeft(SubSeq(s, i, Len(s))))
    ELSE <<s>>

\* _has_orphan_file_tag_sentence
HasOrphanFileTagSentence(text) ==
    LET sentences == SplitSentences(Strip(text))
    IN  \E i \in 1..Len(sentences) :
            Strip(sentences[i]) # <<>> /\ IsBareFileTagSentence(sentences[i])

\* _is_suspicious_refinement, for a source that names no file and holds no
\* correction cue: the tests that read the source find nothing
IsSuspiciousRefinement(source, candidate, programmer_mode) ==
    IF ~programmer_mode THEN FALSE
    ELSE HasOrphanFileTagSentence(candidate)

\* _is_suspiciously_short_refinement
IsSuspiciouslyShortRefinement(source, candidate) ==
    LET source_words == WordCount(source)
        candidate_words == WordCount(candidate)
    IN  IF source_words < 10 THEN FALSE
        ELSE IF candidate_words <= 3 THEN TRUE
        ELSE IF source_words >= 40
                /\ candidate_words < IntPercent(source_words, 88) THEN TRUE
        ELSE IF source_words >= 30
                /\ candidate_words < IntPercent(source_words, 82) THEN TRUE
        ELSE IF source_words >= 18
                /\ candidate_words < IntPercent(source_words, 65) THEN TRUE
        ELSE IF Len(candidate) < IntPercent(Len(source), 70)
                /\ source_words >= 24 THEN TRUE
        ELSE Strip(candidate) # <<>> /\ SearchOrphanEnd(Strip(candidate))

KeepsRefinement_Unguarded(pre_refine, refined, programmer_mode) ==
    Strip(refined) # <<>>

\* "if refined.strip()" and the two guards: the refined text replaces the
\* cleaned one
KeepsRefinement(pre_refine, refined, programmer_mode) ==
    /\ Strip(refined) # <<>>
    /\ ~IsSuspiciouslyShortRefinement(pre_refine, refined)
    /\ ~IsSuspiciousRefinement(pre_refine, refined, programmer_mode)

\* what a call of refiner.refine does: it raises, or the model's sanitized
\* output goes through the rest of refine
RefinerReturns(cleaned, outcome) == Refine(cleaned, outcome.candidate)

\* process from the raw transcript on, for a transcript that passed the
\* filters: clean, the refinement gate, the refiner inside try/except, the
\* the cleaned text after the refinement step of process: the refiner is
\* called inside try/except when the gate and the configuration say so,
\* and its text replaces the cleaned one if it passes the guards
AfterRefinement(raw, cleaned, programmer_mode, env, outcome) ==
    IF RefinerIsCalled(env, ShouldRefine(cleaned, <<raw>>))
        /\ outcome.kind = "returns"
        /\ KeepsRefinement(cleaned, RefinerReturns(cleaned, outcome),
                           programmer_mode)
    THEN RefinerReturns(cleaned, outcome)
    ELSE cleaned

\* the final clean: "if finalized.strip(): cleaned = finalized"
Finalize(cleaned, finalized) ==
    IF Strip(finalized) # <<>> THEN finalized ELSE cleaned

\* process from the raw transcript on, for a transcript that passed the
\* filters: clean, the refinement step, the final clean and
\* _preserve_completeness
ProcessWithRefiner(raw, programmer_mode, env, outcome) ==
    LET after == AfterRefinement(raw, Clean(raw, <<>>, programmer_mode),
                                 programmer_mode, env, outcome)
    IN  PreserveCompleteness(
            raw, Finalize(after, Clean(after, <<>>, programmer_mode)),
            <<>>, programmer_mode).text

RefinerRaws ==
    {<<"w", "e", " ", "g", "o", " ", "a", "n", "d", " ", "t", "e", "s", "t">>,
    <<"w", "e", " ", "l", "i", "t", "e", "r", "a", "l", "l", "y", " ", "g", "o", " ", "a", "n", "d", " ", "t", "e", "s", "t">>,
    <<"w", "e", " ", "l", "i", "t", "e", "r", "a", "l", "l", "y", " ", "g", "o", " ", "a", "n", "d", " ", "t", "e", "s", "t", " ", "a", "n", "d", " ", "w", "e", " ", "g", "o", " ", "a", "n", "d", " ", "t", "e", "s", "t", " ", "a", "n", "d", " ", "w", "e", " ", "g", "o">>}

\* the refiner model's output after _sanitize_output
RefinerCandidates ==
    {<<>>, <<" ", " ">>, <<"W", "e", " ", "g", "o", ".">>,
    <<"W", "e", " ", "g", "o", " ", "a", "n", "d", " ", "t", "e", "s", "t", ".">>,
    <<"W", "e", " ", "g", "o", " ", "a", "n", "d", " ", "t", "e", "s", "t", " ", "a", "n", "d", " ", "w", "e", " ", "g", "o", " ", "a", "n", "d", " ", "t", "e", "s", "t", " ", "a", "n", "d">>,
    <<"W", "e", " ", "g", "o", " ", "a", "n", "d", " ", "t", "e", "s", "t", " ", "a", "n", "d", " ", "w", "e", " ", "g", "o", " ", "a", "n", "d", " ", "t", "e", "s", "t", " ", "a", "n", "d", " ", "w", "e", " ", "g", "o", ".">>,
    <<"W", "e", " ", "g", "o", " ", "a", "n", "d", " ", "t", "e", "s", "t", " ", "a", "n", "d", " ", "w", "e", " ", "g", "o", " ", "a", "n", "d", " ", "t", "e", "s", "t", " ", "a", "n", "d", " ", "w", "e", " ", "g", "o", " ", "a", "n", "d", " ", "t", "e", "s", "t", " ", "a", "n", "d", " ", "w", "e", " ", "g", "o", " ", "a", "n", "d", " ", "t", "e", "s", "t", ".">>,
    <<"W", "e", " ", "g", "o", " ", "a", "n", "d", " ", "t", "e", "s", "t", " ", "a", "n", "d", " ", "w", "e", " ", "g", "o", ".", " ", "@", "m", "a", "i", "n", ".", "p", "y">>,
    <<"S", "u", "r", "e", ",", " ", "w", "e", " ", "g", "o", " ", "a", "n", "d", " ", "t", "e", "s", "t", ".">>}

RefinerOutcomes ==
    {[kind |-> "raises", candidate |-> <<>>]}
    \cup [kind : {"returns"}, candidate : RefinerCandidates]

\* the pipeline's refiner: none, or one that is loaded or not, under a
\* cleanup mode
RefinerEnvs ==
    [has_refiner : BOOLEAN, loaded : BOOLEAN,
     cleanup_mode : {"fast", "standard"}]

InitProcessWithRefiner ==
    /\ AppIdle
    /\ MachinesIdle
    /\ fn_args \in
         [fn : {"process_with_refiner"}, raw : RefinerRaws,
          programmer_mode : BOOLEAN, env : RefinerEnvs,
          outcome : RefinerOutcomes]
    /\ fn_ret = NoCall

CallProcessWithRefiner ==
    /\ fn_args.fn = "process_with_refiner"
    /\ fn_ret = NoCall
    /\ fn_ret' = [fn |-> "process_with_refiner",
                  text |-> ProcessWithRefiner(
                               fn_args.raw, fn_args.programmer_mode,
                               fn_args.env, fn_args.outcome)]
    /\ UNCHANGED <<appVars, smVars, fn_args>>

SpecProcessWithRefiner ==
    InitProcessWithRefiner /\ [][CallProcessWithRefiner]_vars

\* the refiner of this call failed: it is not loaded, or it raised, or it
\* returned nothing but blanks, or one of the two guards rejects its text
RefinerFailed(args) ==
    /\ args.env.has_refiner
    /\ \/ ~args.env.loaded
       \/ args.outcome.kind = "raises"
       \/ LET cleaned == Clean(args.raw, <<>>, args.programmer_mode)
              refined == Refine(cleaned, args.outcome.candidate)
          IN  \/ Strip(refined) = <<>>
              \/ IsSuspiciouslyShortRefinement(cleaned, refined)
              \/ IsSuspiciousRefinement(cleaned, refined,
                                        args.programmer_mode)

\* C26: when the refiner is not loaded, raises, returns nothing but blanks
\* or has its text rejected by the truncation or the intent guard, process
\* returns the text it returns with no refiner configured: no error, and
\* an empty text only where that text is empty.
C26_RefinerFailureFallsBack ==
    (fn_ret # NoCall /\ fn_args.fn = "process_with_refiner"
        /\ RefinerFailed(fn_args))
    => /\ fn_ret.fn = "process_with_refiner"
       /\ fn_ret.text = ProcessPlain(fn_args.raw, fn_args.programmer_mode).text

\* the refiner was called on a text of ten words or more and returned two
\* words, which the truncation guard rejected
C26_Witness ==
    /\ fn_ret # NoCall
    /\ fn_args.fn = "process_with_refiner"
    /\ fn_args.env = [has_refiner |-> TRUE, loaded |-> TRUE,
                      cleanup_mode |-> "standard"]
    /\ fn_args.outcome.kind = "returns"
    /\ WordCount(fn_args.outcome.candidate) = 2
    /\ WordCount(fn_args.raw) >= 10
    /\ RefinerFailed(fn_args)
    /\ fn_ret.text # <<>>

\* the restore timer of dictation v has been started and has not yet
\* written or given up
TimerPending(v) == timer[v].pc \in {"armed", "checked", "safe"}

\* C27: with restore_clipboard enabled, an insert that starts while the
\* restore timer of an earlier long text is still pending does not save
\* that earlier inserted text as the original to restore.
C27_InsertSavesUserContent ==
    [][\A w, v \in Workers :
        (/\ restore_clipboard
         /\ worker[w].pc = "ins_save"
         /\ worker'[w].pc = "ins_gen"
         /\ TimerPending(v)
         /\ TextLen(timer[v].text) >= ASYNC_RESTORE_CHARS)
        => worker'[w].original # timer[v].text
    ]_vars

\* the thread of dictation w is running
WorkerRuns(w) == worker[w].pc \notin {"unborn", "done"}

C30_RecordingMeansStreamActive == recording => stream_active

====
